---- MODULE Spec2Model ----
(***************************************************************************)
(* A model of the rslogo pipeline: parser (src/src/parser.rs), AST         *)
(* evaluation (src/src/ast.rs), polymorphic equality                       *)
(* (src/src/uncertain_bool.rs) and turtle state (src/src/turtle.rs).       *)
(*                                                                         *)
(* Numbers.  The program computes in f32.  The model computes in exact     *)
(* rationals [n, d]; the programs it runs only produce small dyadic        *)
(* rationals, on which correctly rounded f32 arithmetic is exact.          *)
(* Text.  A quoted literal or a variable name is a sequence of one-        *)
(* character strings, so that classification and number parsing can be     *)
(* computed from the characters.                                           *)
(* Panics.  A Rust panic is the outcome "Panic" (with the panic message);  *)
(* unbounded recursion is the outcome "Overflow".  Both abort the run.     *)
(***************************************************************************)
EXTENDS Integers, Sequences, FiniteSets, TLC

VARIABLES
    turtle,     \* the Turtle struct, the image's draw calls included
    path,       \* position of the run: indices into program and nested blocks
    status,     \* "running", "done", "panicked", "error"
    msg,        \* the panic message when status = "panicked"
    trace,      \* history of guard evaluations and executed statements
    tokens,     \* parser input: the token sequence handed to parse_content
    parsed,     \* parser output: "none" before parsing, then the result
    cmp         \* the comparison operands and results of the condition check

vars == <<turtle, path, status, msg, trace, tokens, parsed, cmp>>

----------------------------------------------------------------------------
(* f32 values as exact rationals *)

Abs(i) == IF i < 0 THEN -i ELSE i

RECURSIVE GCD(_, _)
GCD(a, b) == IF b = 0 THEN a ELSE GCD(b, a % b)

Rat(n, d) ==
    LET s == IF d < 0 THEN -1 ELSE 1
        g == GCD(Abs(n), Abs(d))
    IN  [n |-> (s * n) \div g, d |-> (s * d) \div g]

R(i) == [n |-> i, d |-> 1]

RAdd(a, b) == Rat(a.n * b.d + b.n * a.d, a.d * b.d)
RSub(a, b) == Rat(a.n * b.d - b.n * a.d, a.d * b.d)
RMul(a, b) == Rat(a.n * b.n, a.d * b.d)
RQuot(a, b) == Rat(a.n * b.d, a.d * b.n)
RNeg(a) == [n |-> -a.n, d |-> a.d]
RLt(a, b) == a.n * b.d < b.n * a.d

\* `as i32` / `as usize` on a finite f32: truncation toward zero
Trunc(a) == IF a.n >= 0 THEN a.n \div a.d ELSE -((-a.n) \div a.d)

----------------------------------------------------------------------------
(* AST constructors *)

Float(v) == [k |-> "Float", v |-> v]
Query(q) == [k |-> "Query", q |-> q]
Variable(s) == [k |-> "Variable", name |-> s]
String(s) == [k |-> "String", s |-> s]
Math(op, e1, e2) == [k |-> "Math", op |-> op, e1 |-> e1, e2 |-> e2]
Bool(c) == [k |-> "Bool", c |-> c]

Equal(e1, e2) == [c |-> "Equal", e1 |-> e1, e2 |-> e2]
NotEqual(e1, e2) == [c |-> "NotEqual", e1 |-> e1, e2 |-> e2]
LessThan(e1, e2) == [c |-> "LessThan", e1 |-> e1, e2 |-> e2]
GreaterThan(e1, e2) == [c |-> "GreaterThan", e1 |-> e1, e2 |-> e2]
And(c1, c2) == [c |-> "And", c1 |-> c1, c2 |-> c2]
Or(c1, c2) == [c |-> "Or", c1 |-> c1, c2 |-> c2]

Procedure0(p) == [node |-> "Procedure", p |-> p]
Procedure1(p, s) == [node |-> "Procedure", p |-> p, s |-> s]
Procedure2(p, s, s2) == [node |-> "Procedure", p |-> p, s |-> s, s2 |-> s2]
If(condition, block) ==
    [node |-> "ControlFlow", flow |-> "If", condition |-> condition, block |-> block]
While(condition, block) ==
    [node |-> "ControlFlow", flow |-> "While", condition |-> condition, block |-> block]

----------------------------------------------------------------------------
(* Option values and aborting outcomes *)

SomeF(v) == [t |-> "Some", f |-> v]
SomeB(v) == [t |-> "Some", b |-> v]
SomeS(v) == [t |-> "Some", s |-> v]
SomeE(e) == [t |-> "Some", e |-> e]
None == [t |-> "None"]
Panic(m) == [t |-> "Panic", msg |-> m]
Overflow == [t |-> "Overflow", msg |-> "stack overflow"]

IsAbort(r) == r.t \in {"Panic", "Overflow"}

\* Option::expect
expect(r, m) == IF r.t = "None" THEN Panic(m) ELSE r

----------------------------------------------------------------------------
(* Turtle: palette and read accessors *)

\* unsvg::COLORS, a fixed palette of 16 distinct colours
COLORS == [i \in 1..16 |-> <<"color", i - 1>>]

RECURSIVE position(_, _)
\* Iterator::position: 0-based index of the first palette entry equal to c
position(c, i) ==
    IF i > Len(COLORS) THEN None
    ELSE IF COLORS[i] = c THEN SomeF(R(i - 1))
    ELSE position(c, i + 1)

get_variable(t, name) ==
    IF name \in DOMAIN t.variables THEN SomeE(t.variables[name])
    ELSE Panic("Variable not found")

get_x(t) == t.x
get_y(t) == t.y
get_pen_color(t) == expect(position(t.pen_color, 1), "unwrap on None")
get_heading(t) == t.heading

----------------------------------------------------------------------------
(* uncertain_bool *)

is_option_eq(a, b) ==
    IF a.t = "Some" /\ b.t = "Some"
    THEN (IF a = b THEN "True" ELSE "False")
    ELSE IF a.t = "None" /\ b.t = "None" THEN "Unknown"
    ELSE "False"

is_true(u) == u = "True"
is_false(u) == u = "False"

----------------------------------------------------------------------------
(* Operator overloads on Expression *)

expr_add(a, b) ==
    IF a.k = "Float" /\ b.k = "Float" THEN SomeE(Float(RAdd(a.v, b.v)))
    ELSE Panic("Can only add expressions that are floats")

expr_sub(a, b) ==
    IF a.k = "Float" /\ b.k = "Float" THEN SomeE(Float(RSub(a.v, b.v)))
    ELSE Panic("Can only subtract expressions that are floats")

expr_mul(a, b) ==
    IF a.k = "Float" /\ b.k = "Float" THEN SomeE(Float(RMul(a.v, b.v)))
    ELSE Panic("Can only multiply expressions that are floats")

\* division as f32 computes it: a zero divisor gives an infinity
expr_div_ieee(a, b) ==
    IF a.k = "Float" /\ b.k = "Float"
    THEN (IF b.v.n = 0 THEN SomeE(Float([n |-> 1, d |-> 0]))
          ELSE SomeE(Float(RQuot(a.v, b.v))))
    ELSE Panic("Can only divide expressions that are floats")

expr_div(a, b) ==
    IF a.k = "Float" /\ b.k = "Float"
    THEN (IF b.v.n = 0 THEN Panic("Division by zero")
          ELSE SomeE(Float(RQuot(a.v, b.v))))
    ELSE Panic("Can only divide expressions that are floats")

----------------------------------------------------------------------------
(* Expression coercions and Condition::eval.  `seen` is the set of         *)
(* <<coercion, variable>> calls open on the call stack: a call that is     *)
(* already open recurs forever, which the program ends with a stack        *)
(* overflow.                                                                *)

RECURSIVE to_float(_, _, _), to_string(_, _, _), to_bool(_, _, _),
          eval_math(_, _, _), eval(_, _, _)

\* the value bound to a variable, coerced: get_variable panics when the
\* name is unbound
var_to_float(g, t, seen) == IF IsAbort(g) THEN g ELSE to_float(g.e, t, seen)
var_to_string(g, t, seen) == IF IsAbort(g) THEN g ELSE to_string(g.e, t, seen)
var_to_bool(g, t, seen) == IF IsAbort(g) THEN g ELSE to_bool(g.e, t, seen)

query_to_float(q, t) ==
    CASE q = "XCOR" -> SomeF(get_x(t))
      [] q = "YCOR" -> SomeF(get_y(t))
      [] q = "COLOR" -> get_pen_color(t)
      [] q = "HEADING" -> SomeF(get_heading(t))

to_float(e, t, seen) ==
    CASE e.k = "Float" -> SomeF(e.v)
      [] e.k = "Variable" ->
            IF <<"float", e.name>> \in seen THEN Overflow
            ELSE var_to_float(get_variable(t, e.name), t,
                              seen \cup {<<"float", e.name>>})
      [] e.k = "Math" -> var_to_float(eval_math(e, t, seen), t, seen)
      [] e.k = "Query" -> query_to_float(e.q, t)
      [] OTHER -> None

to_string(e, t, seen) ==
    CASE e.k = "String" -> SomeS(e.s)
      [] e.k = "Variable" ->
            IF <<"string", e.name>> \in seen THEN Overflow
            ELSE var_to_string(get_variable(t, e.name), t,
                               seen \cup {<<"string", e.name>>})
      [] OTHER -> None

to_bool(e, t, seen) ==
    CASE e.k = "Bool" -> eval(e.c, t, seen)
      [] e.k = "Variable" ->
            IF <<"bool", e.name>> \in seen THEN Overflow
            ELSE var_to_bool(get_variable(t, e.name), t,
                             seen \cup {<<"bool", e.name>>})
      [] OTHER -> None

\* val1 <op> val2 on the two evaluated operands
math_apply(op, val1, val2) ==
    IF IsAbort(val1) THEN val1
    ELSE IF IsAbort(val2) THEN val2
    ELSE CASE op = "Add" -> expr_add(val1.e, val2.e)
           [] op = "Sub" -> expr_sub(val1.e, val2.e)
           [] op = "Mul" -> expr_mul(val1.e, val2.e)
           [] op = "Div" -> expr_div(val1.e, val2.e)

\* Expression::Float(self.to_float(turtle).expect(..))
float_of(r) == IF IsAbort(r) THEN r ELSE SomeE(Float(r.f))

eval_math(e, t, seen) ==
    IF e.k = "Math"
    THEN math_apply(e.op, eval_math(e.e1, t, seen), eval_math(e.e2, t, seen))
    ELSE float_of(expect(to_float(e, t, seen), "Cannot perform math on this type"))

\* is_option_eq on the two coercions of one domain; an aborting coercion
\* aborts the evaluation
compare_in(a, b) ==
    IF IsAbort(a) THEN a
    ELSE IF IsAbort(b) THEN b
    ELSE [t |-> "Some", u |-> is_option_eq(a, b)]

domains(float, bool, string) ==
    IF IsAbort(float) THEN float
    ELSE IF IsAbort(bool) THEN bool
    ELSE IF IsAbort(string) THEN string
    ELSE [t |-> "Some", float |-> float.u, bool |-> bool.u, string |-> string.u]

\* the three comparisons of Equal / NotEqual, in the order the code makes them
Domains(expr1, expr2, t, seen) ==
    domains(compare_in(to_float(expr1, t, seen), to_float(expr2, t, seen)),
            compare_in(to_bool(expr1, t, seen), to_bool(expr2, t, seen)),
            compare_in(to_string(expr1, t, seen), to_string(expr2, t, seen)))

eval_Equal(d) ==
    IF IsAbort(d) THEN d
    ELSE SomeB(is_true(d.float) \/ is_true(d.bool) \/ is_true(d.string))

\* NotEqual as "some domain finds the operands unequal"
eval_NotEqual_any(d) ==
    IF IsAbort(d) THEN d
    ELSE SomeB(is_false(d.float) \/ is_false(d.bool) \/ is_false(d.string))

eval_NotEqual(d) ==
    IF IsAbort(d) THEN d
    ELSE SomeB(is_false(d.float) /\ is_false(d.bool) /\ is_false(d.string))

eval_LessThan(val1, val2) ==
    IF IsAbort(val1) THEN val1
    ELSE IF IsAbort(val2) THEN val2
    ELSE SomeB(RLt(val1.f, val2.f))

eval_GreaterThan(val1, val2) ==
    IF IsAbort(val1) THEN val1
    ELSE IF IsAbort(val2) THEN val2
    ELSE SomeB(RLt(val2.f, val1.f))

eval_And(val1, val2) ==
    IF IsAbort(val1) THEN val1
    ELSE IF IsAbort(val2) THEN val2
    ELSE SomeB(val1.b /\ val2.b)

\* Or that does not evaluate cond2 once cond1 is true
eval_Or_short(val1, val2) ==
    IF IsAbort(val1) THEN val1
    ELSE IF val1.b THEN SomeB(TRUE)
    ELSE IF IsAbort(val2) THEN val2
    ELSE SomeB(val2.b)

eval_Or(val1, val2) ==
    IF IsAbort(val1) THEN val1
    ELSE IF IsAbort(val2) THEN val2
    ELSE SomeB(val1.b \/ val2.b)

eval(c, t, seen) ==
    CASE c.c = "Equal" -> eval_Equal(Domains(c.e1, c.e2, t, seen))
      [] c.c = "NotEqual" -> eval_NotEqual(Domains(c.e1, c.e2, t, seen))
      [] c.c = "LessThan" ->
            eval_LessThan(expect(to_float(c.e1, t, seen), "Can only compare floats"),
                          expect(to_float(c.e2, t, seen), "Can only compare floats"))
      [] c.c = "GreaterThan" ->
            eval_GreaterThan(expect(to_float(c.e1, t, seen), "Can only compare floats"),
                             expect(to_float(c.e2, t, seen), "Can only compare floats"))
      [] c.c = "And" -> eval_And(eval(c.c1, t, seen), eval(c.c2, t, seen))
      [] c.c = "Or" -> eval_Or(eval(c.c1, t, seen), eval(c.c2, t, seen))

----------------------------------------------------------------------------
(* Turtle: construction and mutators.  A mutator yields an outcome: the    *)
(* turtle after the call and "Ok", "Err" (an unsvg::Error) or "Panic".     *)

Done(t) == [res |-> "Ok", turtle |-> t]
Failed(t) == [res |-> "Err", turtle |-> t]
Aborted(t, m) == [res |-> "Panic", turtle |-> t, msg |-> m]

\* a turtle that starts at the top-left corner with the pen down
new_at_origin(dimensions) ==
    [image |-> <<>>,
     variables |-> [n \in {} |-> None],
     x |-> R(0),
     y |-> R(0),
     heading |-> R(0),
     pen_down |-> TRUE,
     pen_color |-> COLORS[7 + 1]]

\* Turtle::new on an image of the given dimensions
new(dimensions) ==
    [image |-> <<>>,
     variables |-> [n \in {} |-> None],
     x |-> Rat(dimensions[1], 2),
     y |-> Rat(dimensions[2], 2),
     heading |-> R(0),
     pen_down |-> FALSE,
     pen_color |-> COLORS[7 + 1]]

\* a pen_up that also takes the default pen color again
pen_up_reset(t) == [t EXCEPT !.pen_down = FALSE, !.pen_color = COLORS[7 + 1]]

pen_up(t) == [t EXCEPT !.pen_down = FALSE]
pen_down(t) == [t EXCEPT !.pen_down = TRUE]

\* unsvg::get_end_coordinates on the four axis directions: 0 is up (y
\* decreases), 90 is right
get_end_coordinates(x, y, direction, length) ==
    CASE direction % 360 = 0 -> <<x, RSub(y, length)>>
      [] direction % 360 = 90 -> <<RAdd(x, length), y>>
      [] direction % 360 = 180 -> <<x, RAdd(y, length)>>
      [] direction % 360 = 270 -> <<RSub(x, length), y>>

\* Image::draw_simple_line: records the call; ok is the primitive's answer
draw_simple_line(image, x, y, direction, length, color, ok) ==
    Append(image, [x |-> x, y |-> y, direction |-> direction,
                   length |-> length, color |-> color, ok |-> ok])

\* a move that draws whether the pen is down or not
move_to_drawing(t, direction, expr, end, ok) ==
    IF ok
    THEN Done([t EXCEPT !.image = draw_simple_line(@, t.x, t.y, direction,
                                                  expr, t.pen_color, ok),
                        !.x = end[1], !.y = end[2]])
    ELSE Failed([t EXCEPT !.image = draw_simple_line(@, t.x, t.y, direction,
                                                    expr, t.pen_color, ok)])

\* a move that leaves the turtle in place while the pen is up
move_to_when_down(t, direction, expr, end, ok) ==
    IF t.pen_down
    THEN (IF ok
          THEN Done([t EXCEPT !.image = draw_simple_line(@, t.x, t.y, direction,
                                                        expr, t.pen_color, ok),
                              !.x = end[1], !.y = end[2]])
          ELSE Failed([t EXCEPT !.image = draw_simple_line(@, t.x, t.y, direction,
                                                        expr, t.pen_color, ok)]))
    ELSE Done(t)

\* a move that takes the end of the segment as the position although the
\* draw call failed
move_to_advancing(t, direction, expr, end, ok) ==
    IF t.pen_down
    THEN (IF ok THEN Done([t EXCEPT !.image = draw_simple_line(@, t.x, t.y, direction,
                                                              expr, t.pen_color, ok),
                                    !.x = end[1], !.y = end[2]])
          ELSE Failed([t EXCEPT !.image = draw_simple_line(@, t.x, t.y, direction,
                                                        expr, t.pen_color, ok),
                                !.x = end[1], !.y = end[2]]))
    ELSE Done([t EXCEPT !.x = end[1], !.y = end[2]])

\* the body shared by forward and left once the direction is cast to i32:
\* the end is computed, the line is drawn if the pen is down (? returns the
\* Err before the position is assigned), the position becomes the end
move_to(t, direction, expr, end, ok) ==
    IF t.pen_down
    THEN (IF ok
          THEN Done([t EXCEPT !.image = draw_simple_line(@, t.x, t.y, direction,
                                                        expr, t.pen_color, ok),
                              !.x = end[1], !.y = end[2]])
          ELSE Failed([t EXCEPT !.image = draw_simple_line(@, t.x, t.y, direction,
                                                          expr, t.pen_color, ok)]))
    ELSE Done([t EXCEPT !.x = end[1], !.y = end[2]])

forward(t, expr, ok) ==
    move_to(t, Trunc(t.heading), expr,
            get_end_coordinates(t.x, t.y, Trunc(t.heading), expr), ok)

\* a back that moves by the distance as given
back_unsigned(t, expr, ok) == forward(t, expr, ok)

back(t, expr, ok) == forward(t, RNeg(expr), ok)

left(t, expr, ok) ==
    move_to(t, Trunc(RSub(t.heading, R(90))), expr,
            get_end_coordinates(t.x, t.y, Trunc(RSub(t.heading, R(90))), expr), ok)

right(t, expr, ok) == left(t, RNeg(expr), ok)

\* a turn that keeps the heading within a full turn
turn_wrapped(t, expr) == [t EXCEPT !.heading = R(Trunc(RAdd(@, expr)) % 360)]

turn(t, expr) == [t EXCEPT !.heading = RAdd(@, expr)]

set_heading(t, expr) == [t EXCEPT !.heading = expr]

\* `expr as usize` saturates at 0; indexing past the palette panics
set_pen_color(t, expr) ==
    LET index == IF Trunc(expr) < 0 THEN 0 ELSE Trunc(expr)
    IN  IF index < Len(COLORS)
        THEN Done([t EXCEPT !.pen_color = COLORS[index + 1]])
        ELSE Aborted(t, "index out of bounds")

set_x(t, expr) == [t EXCEPT !.x = expr]

set_y(t, expr) == [t EXCEPT !.y = expr]

add_variable(t, name, value) ==
    [t EXCEPT !.variables =
        [n \in DOMAIN @ \cup {name} |-> IF n = name THEN value ELSE @[n]]]

----------------------------------------------------------------------------
(* ASTNode::execute, Procedure arms *)

\* turtle.add_variable(name, val) once val is evaluated
bind(t, name, val) ==
    IF IsAbort(val) THEN Aborted(t, val.msg)
    ELSE Done(add_variable(t, name, val.e))

\* a MAKE that stores every value unevaluated
Make_unevaluated(t, s, s2) ==
    IF s.k # "Variable"
    THEN Aborted(t, "First argument of MAKE should be a variable")
    ELSE bind(t, s.name, SomeE(s2))

Make(t, s, s2) ==
    IF s.k # "Variable"
    THEN Aborted(t, "First argument of MAKE should be a variable")
    ELSE bind(t, s.name, IF s2.k = "Math" THEN eval_math(s2, t, {}) ELSE SomeE(s2))

\* an assignment of the delta in place of the sum
sum_delta(cur, add) ==
    IF IsAbort(cur) THEN cur
    ELSE IF IsAbort(add) THEN add
    ELSE SomeE(Float(add.f))

\* Expression::Float(cur + add)
sum(cur, add) ==
    IF IsAbort(cur) THEN cur
    ELSE IF IsAbort(add) THEN add
    ELSE SomeE(Float(RAdd(cur.f, add.f)))

AddAssign(t, s, s2) ==
    IF s.k # "Variable"
    THEN Aborted(t, "First argument of ADDASSIGN should be a variable")
    ELSE bind(t, s.name,
              sum(expect(var_to_float(get_variable(t, s.name), t, {}),
                         "Variable not a float"),
                  expect(to_float(s2, t, {}),
                         "Second argument can't be turned into a float")))

\* the call of the Turtle method of a one-expression procedure
one_arg(p, t, v, ok) ==
    IF IsAbort(v) THEN Aborted(t, v.msg)
    ELSE CASE p = "Forward" -> forward(t, v.f, ok)
           [] p = "Back" -> back(t, v.f, ok)
           [] p = "Left" -> left(t, v.f, ok)
           [] p = "Right" -> right(t, v.f, ok)
           [] p = "Turn" -> Done(turn(t, v.f))
           [] p = "SetHeading" -> Done(set_heading(t, v.f))
           [] p = "SetPenColor" -> set_pen_color(t, v.f)
           [] p = "SetX" -> Done(set_x(t, v.f))
           [] p = "SetY" -> Done(set_y(t, v.f))

execute_Procedure(proceedure, t, ok) ==
    CASE proceedure.p = "PenUp" -> Done(pen_up(t))
      [] proceedure.p = "PenDown" -> Done(pen_down(t))
      [] proceedure.p = "Make" -> Make(t, proceedure.s, proceedure.s2)
      [] proceedure.p = "AddAssign" -> AddAssign(t, proceedure.s, proceedure.s2)
      [] OTHER -> one_arg(proceedure.p, t,
                          expect(to_float(proceedure.s, t, {}), "Invalid value"), ok)

\* the guard of an If or While node
guard(condition, t) ==
    expect(to_bool(condition, t, {}),
           "Control flow condition must be able to evaluate into a boolean")

----------------------------------------------------------------------------
(* Tokens.  A token is [type, s]: s is the carried text of a Value or      *)
(* Variable token (a sequence of characters) and <<>> otherwise.           *)

Tok(type) == [type |-> type, s |-> <<>>]
Value(s) == [type |-> "Value", s |-> s]
VariableTok(s) == [type |-> "Variable", s |-> s]

DigitChars == <<"0", "1", "2", "3", "4", "5", "6", "7", "8", "9">>
IsDigit(c) == \E i \in 1..10 : DigitChars[i] = c
DigitVal(c) == (CHOOSE i \in 1..10 : DigitChars[i] = c) - 1
IsLetter(c) ==
    c \in {"a", "b", "c", "d", "e", "f", "g", "h", "i", "j", "k", "l", "m",
           "n", "o", "p", "q", "r", "s", "t", "u", "v", "w", "x", "y", "z",
           "A", "B", "C", "D", "E", "F", "G", "H", "I", "J", "K", "L", "M",
           "N", "O", "P", "Q", "R", "S", "T", "U", "V", "W", "X", "Y", "Z"}

AllDigits(s) == \A i \in 1..Len(s) : IsDigit(s[i])

\* Regex ^-?[0-9]*\.?[0-9]+$
is_numeric(s) ==
    LET r == IF Len(s) > 0 /\ s[1] = "-" THEN Tail(s) ELSE s
    IN  \/ Len(r) > 0 /\ AllDigits(r)
        \/ \E i \in 1..Len(r) :
              /\ r[i] = "."
              /\ AllDigits(SubSeq(r, 1, i - 1))
              /\ i < Len(r)
              /\ AllDigits(SubSeq(r, i + 1, Len(r)))

\* Regex [A-Za-z]+ (unanchored)
has_letter(s) == \E i \in 1..Len(s) : IsLetter(s[i])

RECURSIVE DigitsVal(_)
DigitsVal(s) ==
    IF s = <<>> THEN 0 ELSE 10 * DigitsVal(SubSeq(s, 1, Len(s) - 1)) + DigitVal(s[Len(s)])

RECURSIVE Pow10(_)
Pow10(k) == IF k = 0 THEN 1 ELSE 10 * Pow10(k - 1)

\* str::parse::<f32> on a string that matches is_numeric
parse_f32(s) ==
    LET neg == Len(s) > 0 /\ s[1] = "-"
        r == IF neg THEN Tail(s) ELSE s
        dot == IF \E i \in 1..Len(r) : r[i] = "."
               THEN CHOOSE i \in 1..Len(r) : r[i] = "."
               ELSE Len(r) + 1
        int == SubSeq(r, 1, dot - 1)
        frac == SubSeq(r, dot + 1, Len(r))
        mag == Rat(DigitsVal(int) * Pow10(Len(frac)) + DigitsVal(frac),
                   Pow10(Len(frac)))
    IN  IF neg THEN RNeg(mag) ELSE mag

----------------------------------------------------------------------------
(* The lexer.  The content of a script is a sequence of characters; the    *)
(* lexer emits the longest match of the token patterns at each position    *)
(* and skips whitespace and comments.                                      *)

\* #[token(..)]: the keywords and symbols and the variants they yield
Keywords ==
    { [text |-> <<"P", "E", "N", "U", "P">>, type |-> "PenUp"],
      [text |-> <<"P", "E", "N", "D", "O", "W", "N">>, type |-> "PenDown"],
      [text |-> <<"F", "O", "R", "W", "A", "R", "D">>, type |-> "Forward"],
      [text |-> <<"B", "A", "C", "K">>, type |-> "Back"],
      [text |-> <<"L", "E", "F", "T">>, type |-> "Left"],
      [text |-> <<"R", "I", "G", "H", "T">>, type |-> "Right"],
      [text |-> <<"S", "E", "T", "P", "E", "N", "C", "O", "L", "O", "R">>, type |-> "SetPenColor"],
      [text |-> <<"T", "U", "R", "N">>, type |-> "Turn"],
      [text |-> <<"S", "E", "T", "H", "E", "A", "D", "I", "N", "G">>, type |-> "SetHeading"],
      [text |-> <<"S", "E", "T", "X">>, type |-> "SetX"],
      [text |-> <<"S", "E", "T", "Y">>, type |-> "SetY"],
      [text |-> <<"M", "A", "K", "E">>, type |-> "Make"],
      [text |-> <<"A", "D", "D", "A", "S", "S", "I", "G", "N">>, type |-> "AddAssign"],
      [text |-> <<"X", "C", "O", "R">>, type |-> "XCOR"],
      [text |-> <<"Y", "C", "O", "R">>, type |-> "YCOR"],
      [text |-> <<"H", "E", "A", "D", "I", "N", "G">>, type |-> "HEADING"],
      [text |-> <<"C", "O", "L", "O", "R">>, type |-> "COLOR"],
      [text |-> <<"I", "F">>, type |-> "If"],
      [text |-> <<"W", "H", "I", "L", "E">>, type |-> "While"],
      [text |-> <<"E", "Q">>, type |-> "Equal"],
      [text |-> <<"N", "E">>, type |-> "NotEqual"],
      [text |-> <<"L", "T">>, type |-> "LessThan"],
      [text |-> <<"G", "T">>, type |-> "GreaterThan"],
      [text |-> <<"A", "N", "D">>, type |-> "And"],
      [text |-> <<"O", "R">>, type |-> "Or"],
      [text |-> <<"[">>, type |-> "LParen"],
      [text |-> <<"]">>, type |-> "RParen"],
      [text |-> <<"+">>, type |-> "Add"],
      [text |-> <<"-">>, type |-> "Sub"],
      [text |-> <<"*">>, type |-> "Mul"],
      [text |-> <<"/">>, type |-> "Div"] }

Longest(lens) == CHOOSE n \in lens : \A m \in lens : m <= n

\* the text occurs in src at pos
CharsAt(src, pos, text) ==
    /\ pos + Len(text) - 1 <= Len(src)
    /\ SubSeq(src, pos, pos + Len(text) - 1) = text

RECURSIVE Run(_, _, _)
\* the length of the longest run of characters of class from pos
Run(src, pos, class) ==
    IF pos > Len(src) \/ src[pos] \notin class THEN 0
    ELSE 1 + Run(src, pos + 1, class)

RECURSIVE RunNot(_, _, _)
\* the length of the longest run of characters outside class from pos
RunNot(src, pos, class) ==
    IF pos > Len(src) \/ src[pos] \in class THEN 0
    ELSE 1 + RunNot(src, pos + 1, class)

\* the regex class \s, on the characters of the scripts
Whitespace == {" ", "\t", "\n", "\f", "\r"}

\* the length of the keyword or symbol at pos, 0 if there is none
token_len(src, pos) ==
    Longest({0} \cup {Len(k.text) : k \in {j \in Keywords : CharsAt(src, pos, j.text)}})

token_type(src, pos) ==
    (CHOOSE k \in Keywords :
        CharsAt(src, pos, k.text) /\ Len(k.text) = token_len(src, pos)).type

\* regex "[^\s"]* (Value) and :[^\s"]* (Variable)
prefixed_len(src, pos, prefix) ==
    IF src[pos] = prefix THEN 1 + RunNot(src, pos + 1, Whitespace \cup {"\""}) ELSE 0

value_len(src, pos) == prefixed_len(src, pos, "\"")

variable_len(src, pos) == prefixed_len(src, pos, ":")

\* regex [ \t\n\f]+ (skipped)
whitespace_len(src, pos) == Run(src, pos, {" ", "\t", "\n", "\f"})

\* regex //.*\n (skipped): . matches every character but the newline
comment_end(src, pos, n) == IF pos + 2 + n <= Len(src) THEN n + 3 ELSE 0

comment_len(src, pos) ==
    IF CharsAt(src, pos, <<"/", "/">>)
    THEN comment_end(src, pos, RunNot(src, pos + 2, {"\n"}))
    ELSE 0

\* the characters from pos that begin a keyword and no more
scanned(src, pos) ==
    Longest({0} \cup {n \in 1..(Len(src) - pos + 1) :
                        \E k \in Keywords :
                            /\ n <= Len(k.text)
                            /\ SubSeq(src, pos, pos + n - 1) = SubSeq(k.text, 1, n)})

\* the span of an Error token: the automaton gives up on the first character
\* or on the characters it had read, depending on how it was generated
error_len(src, pos, error) ==
    IF error = "scanned" /\ scanned(src, pos) > 0 THEN scanned(src, pos) ELSE 1

\* lex.slice()[1..]
callback(src, pos, len) == SubSeq(src, pos + 1, pos + len - 1)

\* a span that starts where the content starts
span_from_start(pos, len) == <<0, pos - 1 + len>>

\* .spanned(): the Range of the token, from 0
span(pos, len) == <<pos - 1, pos - 1 + len>>

\* &content[span]
slice(content, range) == SubSeq(content, range[1] + 1, range[2])

\* one item of the token iterator
Spanned(tok, range) == [tok |-> tok, span |-> range]

RECURSIVE Lex(_, _, _)
\* the step of the lexer at pos, given the lengths of the matches there
lex_at(src, pos, error, skip, tk, val, var) ==
    IF skip > tk THEN Lex(src, pos + skip, error)
    ELSE IF tk > 0
    THEN <<Spanned(Tok(token_type(src, pos)), span(pos, tk))>>
            \o Lex(src, pos + tk, error)
    ELSE IF val > 0
    THEN <<Spanned(Value(callback(src, pos, val)), span(pos, val))>>
            \o Lex(src, pos + val, error)
    ELSE IF var > 0
    THEN <<Spanned(VariableTok(callback(src, pos, var)), span(pos, var))>>
            \o Lex(src, pos + var, error)
    ELSE <<Spanned(Tok("Error"), span(pos, error_len(src, pos, error)))>>
            \o Lex(src, pos + error_len(src, pos, error), error)

Lex(src, pos, error) ==
    IF pos > Len(src) THEN <<>>
    ELSE lex_at(src, pos, error,
                Longest({whitespace_len(src, pos), comment_len(src, pos)}),
                token_len(src, pos), value_len(src, pos), variable_len(src, pos))

\* tokenize(content): the items of the iterator, in order
tokenize(content, error) == Lex(content, 1, error)

----------------------------------------------------------------------------
(* The parser.  A combinator applied at position pos of toks yields        *)
(* POk(next position, output) or PFail; alternation is ordered and a       *)
(* failed alternative consumes nothing.                                    *)

POk(pos, out) == [ok |-> TRUE, pos |-> pos, out |-> out]
PFail == [ok |-> FALSE]

At(toks, pos) == IF pos <= Len(toks) THEN toks[pos] ELSE Tok("end of input")

\* Parser::or
or(a, b) == IF a.ok THEN a ELSE b

value(toks, pos) ==
    LET tk == At(toks, pos)
    IN  IF tk.type = "Value" /\ is_numeric(tk.s)
        THEN POk(pos + 1, Float(parse_f32(tk.s)))
        ELSE IF tk.type = "Value" /\ has_letter(tk.s)
        THEN POk(pos + 1, String(tk.s))
        ELSE PFail

variable(toks, pos) ==
    LET tk == At(toks, pos)
    IN  IF tk.type = "Variable" THEN POk(pos + 1, Variable(tk.s)) ELSE PFail

query(toks, pos) ==
    LET tk == At(toks, pos)
    IN  IF tk.type \in {"XCOR", "YCOR", "HEADING", "COLOR"}
        THEN POk(pos + 1, Query(tk.type))
        ELSE PFail

\* a.then(b) once a has been applied: b's result is paired with a's
then_pair(lhs, rhs) ==
    IF rhs.ok THEN POk(rhs.pos, <<lhs.out, rhs.out>>) ELSE PFail

RECURSIVE arg(_, _), condition(_, _)

\* math.clone().then(math.clone())
arg_then_arg(toks, lhs) ==
    IF lhs.ok THEN then_pair(lhs, arg(toks, lhs.pos)) ELSE PFail

math_map(token, body) ==
    IF body.ok THEN POk(body.pos, Math(token.type, body.out[1], body.out[2]))
    ELSE PFail

math(toks, pos) ==
    IF At(toks, pos).type \in {"Add", "Sub", "Mul", "Div"}
    THEN math_map(At(toks, pos), arg_then_arg(toks, arg(toks, pos + 1)))
    ELSE PFail

arg(toks, pos) ==
    or(math(toks, pos),
       or(value(toks, pos), or(variable(toks, pos), query(toks, pos))))

math_cond_map(token, body) ==
    IF body.ok
    THEN POk(body.pos, [c |-> token.type, e1 |-> body.out[1], e2 |-> body.out[2]])
    ELSE PFail

math_cond(toks, pos) ==
    IF At(toks, pos).type \in {"Equal", "NotEqual", "LessThan", "GreaterThan"}
    THEN math_cond_map(At(toks, pos), arg_then_arg(toks, arg(toks, pos + 1)))
    ELSE PFail

\* cond.clone().then(cond.clone())
cond_then_cond(toks, lhs) ==
    IF lhs.ok THEN then_pair(lhs, condition(toks, lhs.pos)) ELSE PFail

bool_cond_map(token, body) ==
    IF body.ok
    THEN POk(body.pos, [c |-> token.type, c1 |-> body.out[1], c2 |-> body.out[2]])
    ELSE PFail

bool_cond(toks, pos) ==
    IF At(toks, pos).type \in {"And", "Or"}
    THEN bool_cond_map(At(toks, pos), cond_then_cond(toks, condition(toks, pos + 1)))
    ELSE PFail

condition(toks, pos) == or(math_cond(toks, pos), bool_cond(toks, pos))

\* arg.not().rewind().ignored().or(end()): nothing is consumed
no_arg(toks, pos) == pos > Len(toks) \/ ~arg(toks, pos).ok

\* .then_ignore(no_arg)
then_ignore_no_arg(toks, r) ==
    IF r.ok /\ no_arg(toks, r.pos) THEN r ELSE PFail

procedure_no_args(toks, pos) ==
    IF At(toks, pos).type \in {"PenUp", "PenDown"}
    THEN then_ignore_no_arg(toks, POk(pos + 1, Procedure0(At(toks, pos).type)))
    ELSE PFail

one_arg_map(token, val) ==
    IF val.ok THEN POk(val.pos, Procedure1(token.type, val.out)) ELSE PFail

procedure_one_arg(toks, pos) ==
    IF At(toks, pos).type \in {"Forward", "Back", "Left", "Right", "Turn",
                               "SetHeading", "SetX", "SetY", "SetPenColor"}
    THEN then_ignore_no_arg(toks, one_arg_map(At(toks, pos), arg(toks, pos + 1)))
    ELSE PFail

bool_map(c) == IF c.ok THEN POk(c.pos, Bool(c.out)) ELSE PFail

bool(toks, pos) == bool_map(condition(toks, pos))

\* arg.clone().then(arg.clone().or(bool.clone()))
arg_then_arg_or_bool(toks, name) ==
    IF name.ok
    THEN then_pair(name, or(arg(toks, name.pos), bool(toks, name.pos)))
    ELSE PFail

\* the try_map of make and add_assign: the name must be an Expression::String
\* a make / add_assign that takes any first operand as the name
two_args_map_any(p, body) ==
    IF body.ok
    THEN POk(body.pos,
             Procedure2(p, IF body.out[1].k = "String"
                           THEN Variable(body.out[1].s) ELSE body.out[1],
                        body.out[2]))
    ELSE PFail

two_args_map(p, body) ==
    IF body.ok /\ body.out[1].k = "String"
    THEN POk(body.pos, Procedure2(p, Variable(body.out[1].s), body.out[2]))
    ELSE PFail

make(toks, pos) ==
    IF At(toks, pos).type = "Make"
    THEN then_ignore_no_arg(toks,
            two_args_map("Make", arg_then_arg_or_bool(toks, arg(toks, pos + 1))))
    ELSE PFail

add_assign(toks, pos) ==
    IF At(toks, pos).type = "AddAssign"
    THEN then_ignore_no_arg(toks,
            two_args_map("AddAssign", arg_then_arg(toks, arg(toks, pos + 1))))
    ELSE PFail

procedure_two_args(toks, pos) == or(make(toks, pos), add_assign(toks, pos))

procedure(toks, pos) ==
    or(procedure_no_args(toks, pos),
       or(procedure_one_arg(toks, pos), procedure_two_args(toks, pos)))

RECURSIVE control_flow(_, _), repeated(_, _)

\* Repeated: one more item in front of the items that follow it
repeated_cons(item, rest) == POk(rest.pos, <<item.out>> \o rest.out)

repeated_from(toks, pos, item) ==
    IF item.ok THEN repeated_cons(item, repeated(toks, item.pos))
    ELSE POk(pos, <<>>)

\* procedure.or(control_flow).repeated(): as many statements as parse
repeated(toks, pos) ==
    repeated_from(toks, pos, or(procedure(toks, pos), control_flow(toks, pos)))

at_least(r, n) == IF r.ok /\ Len(r.out) >= n THEN r ELSE PFail

\* .delimited_by(just(Token::LParen), just(Token::RParen)), then the try_map
control_flow_map(toks, token, cond, body) ==
    IF body.ok /\ At(toks, body.pos).type = "RParen"
    THEN POk(body.pos + 1,
             [node |-> "ControlFlow", flow |-> token.type,
              condition |-> cond.out, block |-> body.out])
    ELSE PFail

control_flow_body(toks, token, cond) ==
    IF cond.ok /\ At(toks, cond.pos).type = "LParen"
    THEN control_flow_map(toks, token, cond,
                          at_least(repeated(toks, cond.pos + 1), 1))
    ELSE PFail

control_flow(toks, pos) ==
    IF At(toks, pos).type \in {"If", "While"}
    THEN control_flow_body(toks, At(toks, pos),
                           or(bool(toks, pos + 1), variable(toks, pos + 1)))
    ELSE PFail

parser(toks) == at_least(repeated(toks, 1), 1)

parse_result(r) ==
    IF r.ok THEN [res |-> "Ok", asts |-> r.out] ELSE [res |-> "Err"]

\* parse_content on the token sequence that tokenize(content) yields
parse_content(toks) == parse_result(parser(toks))

----------------------------------------------------------------------------
(* Position of a run in the program.  path = <<i1, ..., ik>>: statement i1 *)
(* of the program, statement i2 of its block, ...; the last index is the   *)
(* statement to execute next in the innermost block, one past the end when *)
(* the block is finished.                                                  *)

Front(p) == SubSeq(p, 1, Len(p) - 1)
Last(p) == p[Len(p)]
Advance(p) == Append(Front(p), Last(p) + 1)

\* the Vec<ASTNode> being run: what parse_content returned
program == IF parsed.res = "Ok" THEN parsed.asts ELSE <<>>

RECURSIVE NodeAt(_, _)
NodeAt(nodes, p) ==
    IF Len(p) = 1 THEN nodes[p[1]] ELSE NodeAt(nodes[p[1]].block, Tail(p))

\* the block that holds the statement at path p
BlockOf(p) == IF Len(p) = 1 THEN program ELSE NodeAt(program, Front(p)).block

AtStatement == path # <<>> /\ Last(path) <= Len(BlockOf(path))
AtBlockEnd == path # <<>> /\ Last(path) > Len(BlockOf(path))

\* a block that is entered whatever the first guard says (do .. while)
enter_always(p, g) == Append(p, 1)

\* `if condition { for .. }` / `while cond { for .. }` on the first guard g
\* of the node at p: into the block, or past the node
enter(p, g) == IF g.t = "Some" /\ g.b THEN Append(p, 1) ELSE Advance(p)

\* a loop that leaves after its first pass whatever the guard says
repeat_never(p, g) == Advance(p)

\* `while cond` on the guard g evaluated after a pass over the block of the
\* node at p: the block again, or past the node
repeat(p, g) == IF g.t = "Some" /\ g.b THEN Append(p, 1) ELSE Advance(p)

Event(ev, at, res) == [ev |-> ev, at |-> at, res |-> res]

\* what the caller of a top-level execute does with its Result: the run
\* stops at the first Err
caller(res) == IF res = "Err" THEN "error" ELSE "running"

----------------------------------------------------------------------------
(* Bounds and inputs *)

MaxN == 4          \* largest loop bound N of the counting scripts
MaxStmts == 2      \* statements in a composed script
MaxTrace == 14     \* guard evaluations and statements in a run

Canvases == {<<100, 100>>, <<5, 8>>}

K_PENUP == Tok("PenUp")
K_PENDOWN == Tok("PenDown")
K_FORWARD == Tok("Forward")
K_BACK == Tok("Back")
K_LEFT == Tok("Left")
K_RIGHT == Tok("Right")
K_TURN == Tok("Turn")
K_SETHEADING == Tok("SetHeading")
K_SETPENCOLOR == Tok("SetPenColor")
K_SETX == Tok("SetX")
K_MAKE == Tok("Make")
K_ADDASSIGN == Tok("AddAssign")
K_IF == Tok("If")
K_WHILE == Tok("While")
K_EQ == Tok("Equal")
K_NE == Tok("NotEqual")
K_LT == Tok("LessThan")
K_GT == Tok("GreaterThan")
K_LBRACKET == Tok("LParen")
K_RBRACKET == Tok("RParen")
K_DIV == Tok("Div")
K_ADD == Tok("Add")
K_SUB == Tok("Sub")
K_XCOR == Tok("XCOR")
K_ERROR == Tok("Error")

\* K_MAKE "i "0  K_WHILE K_LT :i "N [ K_ADDASSIGN "i "1 ]
CountTo(N) ==
    <<K_MAKE, Value(<<"i">>), Value(<<"0">>),
      K_WHILE, K_LT, VariableTok(<<"i">>), Value(<<DigitChars[N + 1]>>),
      K_LBRACKET, K_ADDASSIGN, Value(<<"i">>), Value(<<"1">>), K_RBRACKET>>

\* the scenarios of the specification
PenDownForward == <<K_PENDOWN, K_FORWARD, Value(<<"1", "0", "0">>)>>

MakeAddAssignForward ==
    <<K_MAKE, Value(<<"x">>), Value(<<"1", "0">>),
      K_ADDASSIGN, Value(<<"x">>), Value(<<"5">>),
      K_FORWARD, VariableTok(<<"x">>)>>

IfTrue ==
    <<K_IF, K_EQ, Value(<<"1">>), Value(<<"1">>), K_LBRACKET, K_PENDOWN, K_RBRACKET>>

DivideByZero == <<K_MAKE, Value(<<"r">>), K_DIV, Value(<<"1", "0">>), Value(<<"0">>)>>

MakeForward ==
    <<K_MAKE, Value(<<"x">>), Value(<<"1", "0">>), K_FORWARD, VariableTok(<<"x">>)>>

Scenarios ==
    {PenDownForward, MakeAddAssignForward, IfTrue, DivideByZero, MakeForward}
    \cup {CountTo(N) : N \in 0..MaxN}

\* statements that composed scripts are made of
Pool ==
    { <<K_PENDOWN>>,
      <<K_PENUP>>,
      <<K_FORWARD, Value(<<"1", "0">>)>>,
      <<K_BACK, Value(<<"7">>)>>,
      <<K_LEFT, Value(<<"2", ".", "5">>)>>,
      <<K_RIGHT, VariableTok(<<"x">>)>>,
      <<K_RIGHT, Value(<<"4">>)>>,
      <<K_TURN, Value(<<"9", "0">>)>>,
      <<K_SETHEADING, Value(<<"-", "9", "0">>)>>,
      <<K_SETPENCOLOR, Value(<<"2">>)>>,
      <<K_MAKE, Value(<<"x">>), Value(<<"1", "0">>)>>,
      <<K_MAKE, Value(<<"y">>), VariableTok(<<"x">>)>>,
      <<K_MAKE, Value(<<"x">>), VariableTok(<<"y">>)>>,
      <<K_ADDASSIGN, Value(<<"x">>), Value(<<"5">>)>>,
      <<K_ADDASSIGN, Value(<<"y">>), Value(<<"-", "2", ".", "5">>)>>,
      <<K_MAKE, Value(<<"x">>), K_DIV, Value(<<"1", "0">>),
            K_SUB, VariableTok(<<"x">>), VariableTok(<<"x">>)>>,
      <<K_MAKE, Value(<<"z">>), K_DIV, VariableTok(<<"x">>), Value(<<"4">>)>>,
      <<K_IF, K_EQ, VariableTok(<<"x">>), Value(<<"1", "0">>), K_LBRACKET,
            K_MAKE, Value(<<"x">>), Value(<<"2">>), K_PENDOWN,
            K_FORWARD, VariableTok(<<"x">>), K_RBRACKET>>,
      <<K_IF, K_LT, K_XCOR, Value(<<"1", "0">>), K_LBRACKET,
            K_PENDOWN, K_FORWARD, Value(<<"1", "0">>), K_RBRACKET>>,
      <<K_WHILE, K_LT, VariableTok(<<"x">>), Value(<<"1", "2">>), K_LBRACKET,
            K_ADDASSIGN, Value(<<"x">>), Value(<<"1">>),
            K_FORWARD, Value(<<"1", "0">>), K_RBRACKET>> }

RECURSIVE Flatten(_)
Flatten(ss) == IF ss = <<>> THEN <<>> ELSE Head(ss) \o Flatten(Tail(ss))

\* token runs that are no statement: a lexer Error token, a closing bracket
\* with no block, an operator, a procedure with no operand, a literal or a
\* variable with no procedure, a block that is never closed, a MAKE whose
\* first operand is no name, a closing bracket before a statement, a PENUP
\* before a literal, an arithmetic operator with no operands, a MAKE whose
\* first operand is a number or a query, an ADDASSIGN whose first operand is
\* a math expression
Junk ==
    { <<K_ERROR>>,
      <<K_PENUP, Value(<<"1">>)>>,
      <<K_SUB>>,
      <<K_MAKE, Value(<<"1">>), Value(<<"2">>)>>,
      <<K_MAKE, K_XCOR, Value(<<"1">>)>>,
      <<K_ADDASSIGN, K_SUB, Value(<<"1">>), Value(<<"2">>), Value(<<"3">>)>>,
      <<K_RBRACKET>>,
      <<K_EQ>>,
      <<K_FORWARD>>,
      <<Value(<<"1">>)>>,
      <<VariableTok(<<"x">>)>>,
      <<K_IF, K_EQ, Value(<<"1">>), Value(<<"1">>), K_LBRACKET, K_PENDOWN>>,
      <<K_MAKE, VariableTok(<<"x">>), Value(<<"1">>)>>,
      <<K_RBRACKET, K_FORWARD, Value(<<"1", "0">>)>> }

\* scripts made of statements and of junk
Mixed == {Flatten(ss) : ss \in UNION {[1..n -> Pool \cup Junk] : n \in 1..MaxStmts}}

\* operands of a comparison, as the parser builds them (arg)
Operands ==
    { Float(R(1)), Float(R(2)), String(<<"a">>), String(<<"b">>),
      Variable(<<"x">>), Variable(<<"y">>), Query("XCOR"),
      Math("Add", Float(R(1)), Float(R(1))) }

\* turtles after MAKE statements: x and y unbound; numeric and string; y an
\* alias of x; string and boolean
Environments ==
    { new(<<100, 100>>),
      add_variable(add_variable(new(<<100, 100>>), <<"x">>, Float(R(1))),
                   <<"y">>, String(<<"a">>)),
      add_variable(add_variable(new(<<100, 100>>), <<"x">>, Float(R(2))),
                   <<"y">>, Variable(<<"x">>)),
      add_variable(add_variable(new(<<100, 100>>), <<"x">>, String(<<"b">>)),
                   <<"y">>, Bool(Equal(Float(R(1)), Float(R(1))))) }

Composed == {Flatten(ss) : ss \in UNION {[1..n -> Pool] : n \in 1..MaxStmts}}

\* IF EQ "1 "1 [ body ]
IfTrueThen(body) ==
    <<K_IF, K_EQ, Value(<<"1">>), Value(<<"1">>), K_LBRACKET>> \o body \o <<K_RBRACKET>>

\* blocks whose first child fails: an undefined variable, an operand that is
\* no number, a division by zero, a palette index out of range
UndefinedInIf == IfTrueThen(<<K_FORWARD, VariableTok(<<"u">>), K_PENDOWN>>)
NotANumberInIf == IfTrueThen(<<K_FORWARD, Value(<<"a">>), K_PENDOWN>>)
DivideByZeroInIf ==
    IfTrueThen(<<K_MAKE, Value(<<"z">>), K_DIV, Value(<<"1">>), Value(<<"0">>), K_PENDOWN>>)
ColorOutOfRangeInIf == IfTrueThen(<<K_SETPENCOLOR, Value(<<"1", "6">>), K_PENDOWN>>)

\* a block whose second child draws
DrawInIf == IfTrueThen(<<K_PENDOWN, K_FORWARD, Value(<<"1", "0">>), K_PENUP>>)

\* MAKE "x "10  WHILE LT :x "12 [ MAKE "x "a ]: the guard fails on its second
\* evaluation
GuardFailsLater ==
    <<K_MAKE, Value(<<"x">>), Value(<<"1", "0">>),
      K_WHILE, K_LT, VariableTok(<<"x">>), Value(<<"1", "2">>), K_LBRACKET,
      K_MAKE, Value(<<"x">>), Value(<<"a">>), K_RBRACKET>>

\* SETPENCOLOR "-1
NegativeColor == <<K_SETPENCOLOR, Value(<<"-", "1">>)>>

\* IF EQ "1 "1 [ PENDOWN  FORWARD "10  BACK "10 ]
RoundTripInIf ==
    IfTrueThen(<<K_PENDOWN, K_FORWARD, Value(<<"1", "0">>), K_BACK, Value(<<"1", "0">>)>>)

\* MAKE "x :x  FORWARD :x
SelfReference ==
    <<K_MAKE, Value(<<"x">>), VariableTok(<<"x">>), K_FORWARD, VariableTok(<<"x">>)>>

\* MAKE "a :b  MAKE "b :a  IF :a [ PENDOWN ]
MutualReference ==
    <<K_MAKE, Value(<<"a">>), VariableTok(<<"b">>),
      K_MAKE, Value(<<"b">>), VariableTok(<<"a">>),
      K_IF, VariableTok(<<"a">>), K_LBRACKET, K_PENDOWN, K_RBRACKET>>

\* MAKE "x "10  WHILE LT :x "12 [ PENDOWN  FORWARD "10  ADDASSIGN "x "1 ]
DrawInWhile ==
    <<K_MAKE, Value(<<"x">>), Value(<<"1", "0">>),
      K_WHILE, K_LT, VariableTok(<<"x">>), Value(<<"1", "2">>), K_LBRACKET,
      K_PENDOWN, K_FORWARD, Value(<<"1", "0">>),
      K_ADDASSIGN, Value(<<"x">>), Value(<<"1">>), K_RBRACKET>>

Faulty ==
    {DrawInWhile, UndefinedInIf, NotANumberInIf, DivideByZeroInIf, ColorOutOfRangeInIf,
     DrawInIf, GuardFailsLater, NegativeColor, RoundTripInIf,
     SelfReference, MutualReference}

\* MAKE "a + XCOR "0  RIGHT "10
MakeMath ==
    <<K_MAKE, Value(<<"a">>), K_ADD, K_XCOR, Value(<<"0">>),
      K_RIGHT, Value(<<"1", "0">>)>>

\* MAKE "a "1  MAKE "a XCOR  RIGHT "10
MakeQuery ==
    <<K_MAKE, Value(<<"a">>), Value(<<"1">>), K_MAKE, Value(<<"a">>), K_XCOR,
      K_RIGHT, Value(<<"1", "0">>)>>

\* MAKE "b "1  MAKE "a :b  MAKE "b "2
MakeVariable ==
    <<K_MAKE, Value(<<"b">>), Value(<<"1">>),
      K_MAKE, Value(<<"a">>), VariableTok(<<"b">>),
      K_MAKE, Value(<<"b">>), Value(<<"2">>)>>

\* MAKE "a LT XCOR "55  RIGHT "10
MakeCondition ==
    <<K_MAKE, Value(<<"a">>), K_LT, K_XCOR, Value(<<"5", "5">>),
      K_RIGHT, Value(<<"1", "0">>)>>

Rebinding == {MakeMath, MakeQuery, MakeVariable, MakeCondition}

\* MAKE "x "10  SETPENCOLOR "2  PENUP
MakeColorPenUp ==
    <<K_MAKE, Value(<<"x">>), Value(<<"1", "0">>),
      K_SETPENCOLOR, Value(<<"2">>), K_PENUP>>

\* SETHEADING "270  FORWARD "10  TURN "180  TURN "90  FORWARD "10
HeadingBeyond ==
    <<K_SETHEADING, Value(<<"2", "7", "0">>), K_FORWARD, Value(<<"1", "0">>),
      K_TURN, Value(<<"1", "8", "0">>), K_TURN, Value(<<"9", "0">>),
      K_FORWARD, Value(<<"1", "0">>)>>

\* SETHEADING "-90  TURN "-180  BACK "7
HeadingBelow ==
    <<K_SETHEADING, Value(<<"-", "9", "0">>), K_TURN, Value(<<"-", "1", "8", "0">>),
      K_BACK, Value(<<"7">>)>>

Scripts ==
    Scenarios \cup Composed \cup Faulty \cup Rebinding
        \cup {MakeColorPenUp, HeadingBeyond, HeadingBelow}

----------------------------------------------------------------------------
(* The run: parse, then execute statement by statement *)

\* the state before parse_content is called on one of the scripts
Start(scripts) ==
    /\ tokens \in scripts
    /\ parsed = [res |-> "none"]
    /\ path = <<>>
    /\ status = "unparsed"
    /\ msg = ""
    /\ trace = <<>>
    /\ turtle \in {new(d) : d \in Canvases}
    /\ cmp = [done |-> FALSE]

Init == Start(Scripts)

Parse ==
    /\ status = "unparsed"
    /\ parsed' = parse_content(tokens)
    /\ IF parsed'.res = "Ok"
       THEN path' = <<1>> /\ status' = "running"
       ELSE path' = <<>> /\ status' = "rejected"
    /\ UNCHANGED <<turtle, msg, trace, tokens, cmp>>

\* an execution that drops the panic of a statement inside a block the way
\* it drops an Err
Executed_dropping(r) ==
    /\ turtle' = r.turtle
    /\ trace' = Append(trace, Event("exec", path, r.res))
    /\ IF r.res = "Panic" /\ Len(path) = 1
       THEN status' = "panicked" /\ msg' = r.msg /\ path' = path
       ELSE IF Len(path) = 1 /\ caller(r.res) = "error"
       THEN status' = "error" /\ msg' = msg /\ path' = path
       ELSE status' = status /\ msg' = msg /\ path' = Advance(path)

\* an Err that reaches the caller from inside a block too
Executed_propagating(r) ==
    /\ turtle' = r.turtle
    /\ trace' = Append(trace, Event("exec", path, r.res))
    /\ IF r.res = "Panic"
       THEN status' = "panicked" /\ msg' = r.msg /\ path' = path
       ELSE IF caller(r.res) = "error"
       THEN status' = "error" /\ msg' = msg /\ path' = path
       ELSE status' = status /\ msg' = msg /\ path' = Advance(path)

\* the outcome r of executing the Procedure node at path: a panic ends the
\* run, an Err reaches the caller from a top-level node and is dropped
\* (`let _ =`) inside a block
Executed(r) ==
    /\ turtle' = r.turtle
    /\ trace' = Append(trace, Event("exec", path, r.res))
    /\ IF r.res = "Panic"
       THEN status' = "panicked" /\ msg' = r.msg /\ path' = path
       ELSE IF Len(path) = 1 /\ caller(r.res) = "error"
       THEN status' = "error" /\ msg' = msg /\ path' = path
       ELSE status' = status /\ msg' = msg /\ path' = Advance(path)

\* ASTNode::execute on a Procedure node; ok is the answer of the drawing
\* primitive, should the node call it
ExecuteProcedure(ok) ==
    /\ status = "running"
    /\ Len(trace) < MaxTrace
    /\ AtStatement
    /\ NodeAt(program, path).node = "Procedure"
    /\ Executed(execute_Procedure(NodeAt(program, path), turtle, ok))
    /\ UNCHANGED <<tokens, parsed, cmp>>

\* a guard whose failure ends the node as a false guard would
Guarded_ending(p, g, next) ==
    IF IsAbort(g)
    THEN /\ status' = status /\ msg' = msg /\ path' = Advance(p)
         /\ trace' = Append(trace, Event("guard", p, "Panic"))
    ELSE /\ status' = status /\ msg' = msg
         /\ path' = next
         /\ trace' = Append(trace, Event("guard", p, IF g.b THEN "true" ELSE "false"))

\* the guard g of the ControlFlow node at p has been evaluated: a panic
\* ends the run, otherwise the run goes to `next`
Guarded(p, g, next) ==
    IF IsAbort(g)
    THEN /\ status' = "panicked" /\ msg' = g.msg /\ path' = path
         /\ trace' = Append(trace, Event("guard", p, "Panic"))
    ELSE /\ status' = status /\ msg' = msg
         /\ path' = next
         /\ trace' = Append(trace, Event("guard", p, IF g.b THEN "true" ELSE "false"))

\* ASTNode::execute on a ControlFlow node: the first evaluation of the guard
EnterControlFlow ==
    /\ status = "running"
    /\ Len(trace) < MaxTrace
    /\ AtStatement
    /\ NodeAt(program, path).node = "ControlFlow"
    /\ Guarded(path, guard(NodeAt(program, path).condition, turtle),
               enter(path, guard(NodeAt(program, path).condition, turtle)))
    /\ UNCHANGED <<turtle, tokens, parsed, cmp>>

\* an If that runs its block again when the block ends
ExitIf_again ==
    /\ status = "running"
    /\ AtBlockEnd
    /\ Len(path) > 1
    /\ NodeAt(program, Front(path)).flow = "If"
    /\ path' = Append(Front(path), 1)
    /\ UNCHANGED <<turtle, status, msg, trace, tokens, parsed, cmp>>

\* the end of an If block: the node returns Ok(())
ExitIf ==
    /\ status = "running"
    /\ AtBlockEnd
    /\ Len(path) > 1
    /\ NodeAt(program, Front(path)).flow = "If"
    /\ path' = Advance(Front(path))
    /\ UNCHANGED <<turtle, status, msg, trace, tokens, parsed, cmp>>

\* a While that evaluates its guard again after any child of the block
LoopWhile_each ==
    /\ status = "running"
    /\ Len(trace) < MaxTrace
    /\ path # <<>>
    /\ Len(path) > 1
    /\ Last(path) > 1
    /\ NodeAt(program, Front(path)).flow = "While"
    /\ Guarded(Front(path), guard(NodeAt(program, Front(path)).condition, turtle),
               repeat(Front(path), guard(NodeAt(program, Front(path)).condition, turtle)))
    /\ UNCHANGED <<turtle, tokens, parsed, cmp>>

\* the end of a pass over a While block: the guard is evaluated again
LoopWhile ==
    /\ status = "running"
    /\ Len(trace) < MaxTrace
    /\ AtBlockEnd
    /\ Len(path) > 1
    /\ NodeAt(program, Front(path)).flow = "While"
    /\ Guarded(Front(path), guard(NodeAt(program, Front(path)).condition, turtle),
               repeat(Front(path), guard(NodeAt(program, Front(path)).condition, turtle)))
    /\ UNCHANGED <<turtle, tokens, parsed, cmp>>

\* every statement of the program has returned Ok(())
Finish ==
    /\ status = "running"
    /\ AtBlockEnd
    /\ Len(path) = 1
    /\ status' = "done"
    /\ UNCHANGED <<turtle, path, msg, trace, tokens, parsed, cmp>>

\* one step of the execution of the parsed program
Execute ==
    \/ \E ok \in BOOLEAN : ExecuteProcedure(ok)
    \/ EnterControlFlow
    \/ ExitIf
    \/ LoopWhile
    \/ Finish

Next ==
    \/ Parse
    \/ Execute

Spec == Init /\ [][Next]_vars

\* the interpreter is a sequential program: once the program is parsed it
\* keeps stepping until the run is over
FairSpec == Start(Scenarios) /\ [][Next]_vars /\ WF_vars(Execute)

----------------------------------------------------------------------------
(* parse_content on its own, on scripts that hold junk *)

InitParse == Start(Mixed) /\ turtle = new(<<100, 100>>)

SpecParse == InitParse /\ [][Parse]_vars

----------------------------------------------------------------------------
(* Condition::eval on its own: Equal and NotEqual of two operands *)

InitCond ==
    /\ tokens = <<>>
    /\ parsed = [res |-> "none"]
    /\ path = <<>>
    /\ status = "cond"
    /\ msg = ""
    /\ trace = <<>>
    /\ turtle \in Environments
    /\ cmp \in {[done |-> FALSE, e1 |-> a, e2 |-> b] : a, b \in Operands}

Compare ==
    /\ status = "cond"
    /\ ~cmp.done
    /\ cmp' = [done |-> TRUE, e1 |-> cmp.e1, e2 |-> cmp.e2,
               eq |-> eval(Equal(cmp.e1, cmp.e2), turtle, {}),
               ne |-> eval(NotEqual(cmp.e1, cmp.e2), turtle, {})]
    /\ UNCHANGED <<turtle, path, status, msg, trace, tokens, parsed>>

SpecCond == InitCond /\ [][Compare]_vars

----------------------------------------------------------------------------
(* Condition::eval on its own: And and Or of two sub-conditions *)

\* sub-conditions as the parser builds them: true, false, depending on the
\* bindings of x and y, failing on an operand that is no number or on an
\* undefined variable, and nested
Conditions ==
    { Equal(Float(R(1)), Float(R(1))),
      Equal(Float(R(1)), Float(R(2))),
      LessThan(Variable(<<"x">>), Float(R(2))),
      GreaterThan(Variable(<<"y">>), Float(R(1))),
      LessThan(String(<<"a">>), Float(R(1))),
      Equal(Variable(<<"u">>), Float(R(1))),
      And(Equal(Float(R(1)), Float(R(1))), LessThan(Variable(<<"x">>), Float(R(2)))),
      Or(Equal(Float(R(1)), Float(R(1))), GreaterThan(Variable(<<"y">>), Float(R(1)))) }

InitBool ==
    /\ tokens = <<>>
    /\ parsed = [res |-> "none"]
    /\ path = <<>>
    /\ status = "bool"
    /\ msg = ""
    /\ trace = <<>>
    /\ turtle \in Environments
    /\ cmp \in {[done |-> FALSE, cond1 |-> a, cond2 |-> b] : a, b \in Conditions}

Combine ==
    /\ status = "bool"
    /\ ~cmp.done
    /\ cmp' = [done |-> TRUE, cond1 |-> cmp.cond1, cond2 |-> cmp.cond2,
               conj |-> eval(And(cmp.cond1, cmp.cond2), turtle, {}),
               disj |-> eval(Or(cmp.cond1, cmp.cond2), turtle, {})]
    /\ UNCHANGED <<turtle, path, status, msg, trace, tokens, parsed>>

SpecBool == InitBool /\ [][Combine]_vars

----------------------------------------------------------------------------
(* tokenize on its own *)

MaxPieces == 2     \* pieces of text in a source

\* pieces of source text: keywords, symbols, literals, variable references,
\* the two prefixes alone, whitespace, a comment with and without its
\* newline, the beginning of a keyword, characters of no pattern
Pieces ==
    { <<"P", "E", "N", "U", "P">>,
      <<"S", "E", "T", "X">>,
      <<"O", "R">>,
      <<"P", "E", "N">>,
      <<"X">>,
      <<"@">>,
      <<"\"", "1", "0">>,
      <<"\"", "a">>,
      <<"\"">>,
      <<":", "x">>,
      <<":">>,
      <<" ">>,
      <<"\n">>,
      <<"\r">>,
      <<"/">>,
      <<"/", "/", "c">>,
      <<"P", "E", "N", "U", "P", " ">>,
      <<"/", "/", " ", "\"", "a", "\n">>,
      <<"+">>,
      <<"[">>,
      <<"]">> }

Sources == {Flatten(ps) : ps \in UNION {[1..n -> Pieces] : n \in 1..MaxPieces}}

\* how the generated automaton spans an Error token
ErrorSpans == {"first", "scanned"}

InitLex ==
    /\ tokens = <<>>
    /\ parsed = [res |-> "none"]
    /\ path = <<>>
    /\ status = "lex"
    /\ msg = ""
    /\ trace = <<>>
    /\ turtle = new(<<100, 100>>)
    /\ cmp \in {[done |-> FALSE, content |-> c, error |-> e, spans |-> <<>>] :
                    c \in Sources, e \in ErrorSpans}

\* the token iterator is drained: the tokens and their spans
Tokenize ==
    /\ status = "lex"
    /\ ~cmp.done
    /\ tokens' = [k \in 1..Len(tokenize(cmp.content, cmp.error)) |->
                    tokenize(cmp.content, cmp.error)[k].tok]
    /\ cmp' = [cmp EXCEPT !.done = TRUE,
                          !.spans = [k \in 1..Len(tokenize(cmp.content, cmp.error)) |->
                                        tokenize(cmp.content, cmp.error)[k].span]]
    /\ UNCHANGED <<turtle, path, status, msg, trace, parsed>>

SpecLex == InitLex /\ [][Tokenize]_vars

----------------------------------------------------------------------------
(* The motion procedures on their own: a move and the opposite move *)

\* turtles at the centre of a canvas, on the four axes and beyond a full
\* turn, pen up and down, in two colours
Headings == {R(0), R(90), R(180), R(270), R(-90), R(450)}

Turtles ==
    {[new(d) EXCEPT !.heading = h, !.pen_down = pd, !.pen_color = COLORS[c + 1]] :
        d \in Canvases, h \in Headings, pd \in BOOLEAN, c \in {7, 2}}

Distances == {R(10), R(-7), Rat(5, 2), R(0)}

Opposite(p) == IF p = "Forward" THEN "Back" ELSE "Right"

InitMove ==
    /\ tokens = <<>>
    /\ parsed = [res |-> "none"]
    /\ path = <<>>
    /\ status = "move"
    /\ msg = ""
    /\ trace = <<>>
    /\ turtle \in Turtles
    /\ \E p \in {"Forward", "Left"}, d \in Distances :
          cmp = [stage |-> 0, p |-> p, d |-> d, start |-> <<turtle.x, turtle.y>>,
                 first |-> "none", second |-> "none"]

\* FORWARD d or LEFT d; ok is the answer of the drawing primitive
Away(ok) ==
    /\ status = "move"
    /\ cmp.stage = 0
    /\ turtle' = one_arg(cmp.p, turtle, SomeF(cmp.d), ok).turtle
    /\ cmp' = [cmp EXCEPT !.stage = 1,
                          !.first = one_arg(cmp.p, turtle, SomeF(cmp.d), ok).res]
    /\ UNCHANGED <<path, status, msg, trace, tokens, parsed>>

\* then BACK d or RIGHT d
Return(ok) ==
    /\ status = "move"
    /\ cmp.stage = 1
    /\ turtle' = one_arg(Opposite(cmp.p), turtle, SomeF(cmp.d), ok).turtle
    /\ cmp' = [cmp EXCEPT !.stage = 2,
                          !.second = one_arg(Opposite(cmp.p), turtle, SomeF(cmp.d), ok).res]
    /\ UNCHANGED <<path, status, msg, trace, tokens, parsed>>

NextMove ==
    \/ \E ok \in BOOLEAN : Away(ok)
    \/ \E ok \in BOOLEAN : Return(ok)

SpecMove == InitMove /\ [][NextMove]_vars

----------------------------------------------------------------------------
(* Properties *)

\* number of events (ev, at, res) of the run so far
Count(ev, at, res) ==
    Cardinality({k \in 1..Len(trace) : trace[k] = Event(ev, at, res)})

\* the binding of a name in the environment
Binding(name) == turtle.variables[name]
Bound(name) == name \in DOMAIN turtle.variables

Coerce(dom, e) ==
    CASE dom = "float" -> to_float(e, turtle, {})
      [] dom = "bool" -> to_bool(e, turtle, {})
      [] dom = "string" -> to_string(e, turtle, {})

CoercionDomains == {"float", "bool", "string"}

\* no coercion of e aborts, and the domains that admit e
Coercible(e) == \A dom \in CoercionDomains : ~IsAbort(Coerce(dom, e))
Admitting(e) == {dom \in CoercionDomains : Coerce(dom, e).t = "Some"}

\* C2: NotEqual(a, b) is true whenever some domain admits both operands and
\* every domain that admits both finds them unequal.
C2_NotEqualDisagrees ==
    ( /\ cmp.done
      /\ Coercible(cmp.e1) /\ Coercible(cmp.e2)
      /\ Admitting(cmp.e1) \cap Admitting(cmp.e2) # {}
      /\ \A dom \in Admitting(cmp.e1) \cap Admitting(cmp.e2) :
            Coerce(dom, cmp.e1) # Coerce(dom, cmp.e2) )
    => cmp.ne = SomeB(TRUE)

\* C3: for operands that each coerce in some domain but never in the same
\* one, Equal and NotEqual both evaluate to false and nothing is raised.
C3_CrossDomain ==
    ( /\ cmp.done
      /\ Coercible(cmp.e1) /\ Coercible(cmp.e2)
      /\ Admitting(cmp.e1) # {} /\ Admitting(cmp.e2) # {}
      /\ Admitting(cmp.e1) \cap Admitting(cmp.e2) = {} )
    => cmp.eq = SomeB(FALSE) /\ cmp.ne = SomeB(FALSE)

C3_Witness ==
    /\ cmp.done
    /\ cmp.e1 = Variable(<<"y">>) /\ cmp.e2 = Float(R(1))
    /\ Admitting(cmp.e1) = {"string"} /\ Admitting(cmp.e2) = {"float"}
    /\ cmp.eq = SomeB(FALSE) /\ cmp.ne = SomeB(FALSE)

\* the run is about to execute the statement Current
Running == status = "running" /\ AtStatement
Current == NodeAt(program, path)

\* the step executes a Procedure node p
Executing(p) ==
    /\ Running
    /\ Current.node = "Procedure"
    /\ Current.p = p
    /\ trace' # trace

\* e is a division whose dividend evaluates and whose divisor evaluates to zero
DividesByZero(e) ==
    /\ e.k = "Math"
    /\ e.op = "Div"
    /\ ~IsAbort(eval_math(e.e1, turtle, {}))
    /\ eval_math(e.e2, turtle, {}) = SomeE(Float(R(0)))

\* C4: a MAKE whose value is a division by a divisor that evaluates to zero
\* raises the fatal error "Division by zero" when it executes, and the
\* environment (and the rest of the turtle) is left unchanged.
C4_DivisionByZero ==
    [][ (Executing("Make") /\ DividesByZero(Current.s2))
        => /\ status' = "panicked"
           /\ msg' = "Division by zero"
           /\ turtle' = turtle ]_vars

C4_Witness ==
    /\ tokens = DivideByZero
    /\ status = "panicked"
    /\ msg = "Division by zero"
    /\ ~Bound(<<"r">>)
    /\ trace = <<Event("exec", <<1>>, "Panic")>>

\* the number an expression coerces to in the current state
NumberOf(e) == to_float(e, turtle, {})

\* C7: when x coerces to the number v and the delta to d, ADDASSIGN x delta
\* rebinds x to the numeric literal v + d and leaves every other binding
\* unchanged; a FORWARD :x then moves the turtle by the number x is bound to,
\* along the heading.
C7_AddAssign ==
    [][ /\ ( /\ Executing("AddAssign")
             /\ Bound(Current.s.name)
             /\ NumberOf(Current.s).t = "Some"
             /\ NumberOf(Current.s2).t = "Some" )
           => /\ status' = "running"
              /\ turtle'.variables =
                    [turtle.variables EXCEPT ![Current.s.name] =
                        Float(RAdd(NumberOf(Current.s).f, NumberOf(Current.s2).f))]
        /\ ( /\ Executing("Forward")
             /\ Current.s.k = "Variable"
             /\ Bound(Current.s.name)
             /\ Binding(Current.s.name).k = "Float"
             /\ trace'[Len(trace')].res = "Ok" )
           => <<turtle'.x, turtle'.y>> =
                 get_end_coordinates(turtle.x, turtle.y, Trunc(turtle.heading),
                                     Binding(Current.s.name).v) ]_vars

\* MAKE "x "10  ADDASSIGN "x "5  FORWARD :x  on the 100 x 100 canvas: x is
\* bound to 15 and the turtle is 15 units up from the centre
C7_Witness ==
    /\ tokens = MakeAddAssignForward
    /\ status = "done"
    /\ Binding(<<"x">>) = Float(R(15))
    /\ turtle.x = R(50) /\ turtle.y = R(35)

\* the direction and the signed distance of the segment of a move
MoveDirection(p) ==
    IF p \in {"Forward", "Back"} THEN Trunc(turtle.heading)
    ELSE Trunc(RSub(turtle.heading, R(90)))
MoveDistance(p, v) == IF p \in {"Forward", "Left"} THEN v ELSE RNeg(v)

Moves == {"Forward", "Back", "Left", "Right"}

\* the step executes a move whose operand coerces to a number
Moving ==
    /\ Running
    /\ Current.node = "Procedure"
    /\ Current.p \in Moves
    /\ NumberOf(Current.s).t = "Some"
    /\ trace' # trace

\* the draw calls of the step: one call with the position before the move,
\* the direction, the signed distance and the pen colour when the pen is
\* down, none when it is up
DrawsOnce ==
    IF turtle.pen_down
    THEN /\ Len(turtle'.image) = Len(turtle.image) + 1
         /\ SubSeq(turtle'.image, 1, Len(turtle.image)) = turtle.image
         /\ LET call == turtle'.image[Len(turtle'.image)]
            IN  /\ call.x = turtle.x /\ call.y = turtle.y
                /\ call.direction = MoveDirection(Current.p)
                /\ call.length = MoveDistance(Current.p, NumberOf(Current.s).f)
                /\ call.color = turtle.pen_color
    ELSE turtle'.image = turtle.image

\* the end coordinate of the segment of the step
SegmentEnd ==
    get_end_coordinates(turtle.x, turtle.y, MoveDirection(Current.p),
                        MoveDistance(Current.p, NumberOf(Current.s).f))

\* C8 as stated: one draw call when the pen is down, none when it is up, and
\* in both cases the position becomes the end coordinate of the segment.
C8_AlwaysMoves ==
    [][ Moving => DrawsOnce /\ <<turtle'.x, turtle'.y>> = SegmentEnd ]_vars

\* C8: one draw call when the pen is down, none when it is up; the position
\* becomes the end coordinate of the segment unless the draw call reports a
\* failure, in which case the position is unchanged and the failure is the
\* result of the statement.  Heading, pen and environment are unchanged.
C8_MovesUnlessDrawFails ==
    [][ Moving =>
          /\ DrawsOnce
          /\ IF turtle.pen_down /\ ~turtle'.image[Len(turtle'.image)].ok
             THEN /\ <<turtle'.x, turtle'.y>> = <<turtle.x, turtle.y>>
                  /\ trace'[Len(trace')].res = "Err"
             ELSE /\ <<turtle'.x, turtle'.y>> = SegmentEnd
                  /\ trace'[Len(trace')].res = "Ok"
          /\ turtle'.heading = turtle.heading
          /\ turtle'.pen_down = turtle.pen_down
          /\ turtle'.pen_color = turtle.pen_color
          /\ turtle'.variables = turtle.variables ]_vars

\* PENDOWN FORWARD "100 on the 100 x 100 canvas: one draw call from the
\* centre with heading 0 and distance 100
C8_Witness ==
    /\ tokens = PenDownForward
    /\ status = "done"
    /\ turtle.image = <<[x |-> R(50), y |-> R(50), direction |-> 0,
                         length |-> R(100), color |-> COLORS[8], ok |-> TRUE]>>
    /\ turtle.x = R(50) /\ turtle.y = R(-50)

\* the step evaluates the first guard of a ControlFlow node
Entering(flow) ==
    /\ Running
    /\ Current.node = "ControlFlow"
    /\ Current.flow = flow
    /\ trace' # trace

GuardIs(b) == guard(Current.condition, turtle) = SomeB(b)

\* q is a position inside the block of the node at p
Under(p, q) == Len(p) < Len(q) /\ SubSeq(q, 1, Len(p)) = p

\* the last evaluation in the trace of the guard of the node at p (0: none)
LastGuard(p) ==
    LET ks == {k \in 1..Len(trace) : trace[k].ev = "guard" /\ trace[k].at = p}
    IN  IF ks = {} THEN 0 ELSE CHOOSE k \in ks : \A j \in ks : j <= k

\* the children of the node at p that the events after k belong to
Children(p, k) == [j \in 1..(Len(trace) - k) |-> trace[k + j].at[Len(p) + 1]]

InOrder(seq) == \A i, j \in DOMAIN seq : i < j => seq[i] <= seq[j]
Times(seq, c) == Cardinality({j \in DOMAIN seq : seq[j] = c})

\* the step leaves the block of an If node
AtIfEnd ==
    /\ status = "running"
    /\ AtBlockEnd
    /\ Len(path) > 1
    /\ NodeAt(program, Front(path)).flow = "If"

\* what has happened since the guard of the If node at p was evaluated: the
\* guard was true, nothing but the children ran, in block order, every
\* child was reached and every Procedure child was executed exactly once
RanBlockOnce(p) ==
    /\ LastGuard(p) > 0
    /\ trace[LastGuard(p)].res = "true"
    /\ \A j \in (LastGuard(p) + 1)..Len(trace) : Under(p, trace[j].at)
    /\ InOrder(Children(p, LastGuard(p)))
    /\ \A c \in 1..Len(NodeAt(program, p).block) :
          /\ Times(Children(p, LastGuard(p)), c) >= 1
          /\ NodeAt(program, p).block[c].node = "Procedure"
                => Times(Children(p, LastGuard(p)), c) = 1

\* C9: an IF evaluates its guard once.  A false guard executes no child and
\* changes nothing; a true guard enters the block, and when the block ends
\* the node is left without a second evaluation, every child having been
\* executed once, in block order, whatever the guard would now be.
\* IF EQ "1 "1 [ PENDOWN ] ends with the pen down.
C9_IfOnce ==
    [][ /\ (Entering("If") /\ GuardIs(FALSE))
           => /\ turtle' = turtle
              /\ path' = Advance(path)
              /\ trace' = Append(trace, Event("guard", path, "false"))
        /\ (Entering("If") /\ GuardIs(TRUE))
           => /\ turtle' = turtle
              /\ path' = Append(path, 1)
              /\ trace' = Append(trace, Event("guard", path, "true"))
        /\ (AtIfEnd /\ vars' # vars)
           => /\ RanBlockOnce(Front(path))
              /\ path' = Advance(Front(path))
              /\ trace' = trace
              /\ turtle' = turtle
        /\ (tokens = IfTrue /\ status' = "done") => turtle'.pen_down ]_vars

\* MAKE "x "10  IF EQ :x "10 [ MAKE "x "2  PENDOWN  FORWARD :x ]: the first
\* child makes the guard false, the other children are executed all the same
C9_Witness ==
    /\ status = "done"
    /\ Len(trace) = 5
    /\ trace[1] = Event("exec", <<1>>, "Ok")
    /\ trace[2] = Event("guard", <<2>>, "true")
    /\ trace[3].at = <<2, 1>> /\ trace[4].at = <<2, 2>> /\ trace[5].at = <<2, 3>>
    /\ guard(NodeAt(program, <<2>>).condition, turtle) = SomeB(FALSE)
    /\ turtle.pen_down

\* C10: a WHILE whose guard is false on its first evaluation executes its
\* block zero times: the step changes nothing in the turtle (position,
\* heading, pen, colour, environment, draw calls) and goes past the node,
\* and the next event of the run is not inside the block.
C10_WhileFalse ==
    [][ /\ (Entering("While") /\ GuardIs(FALSE))
           => /\ turtle' = turtle
              /\ path' = Advance(path)
              /\ status' = "running"
              /\ trace' = Append(trace, Event("guard", path, "false"))
        /\ ( /\ trace # <<>>
             /\ trace[Len(trace)].ev = "guard"
             /\ trace[Len(trace)].res = "false"
             /\ trace' # trace )
           => ~Under(trace[Len(trace)].at, trace'[Len(trace')].at) ]_vars

\* MAKE "i "0  WHILE LT :i "0 [ ADDASSIGN "i "1 ]: the guard is evaluated
\* once and the block is never executed
C10_Witness ==
    /\ tokens = CountTo(0)
    /\ status = "done"
    /\ trace = <<Event("exec", <<1>>, "Ok"), Event("guard", <<2>>, "false")>>
    /\ Binding(<<"i">>) = Float(R(0))
    /\ turtle.image = <<>>

RECURSIVE TokensOfExpression(_), TokensOfCondition(_), TokensOf(_)

\* the number of tokens an expression, a condition, a sequence of nodes is
\* written with
TokensOfExpression(e) ==
    CASE e.k = "Math" -> 1 + TokensOfExpression(e.e1) + TokensOfExpression(e.e2)
      [] e.k = "Bool" -> TokensOfCondition(e.c)
      [] OTHER -> 1

TokensOfCondition(c) ==
    IF c.c \in {"And", "Or"}
    THEN 1 + TokensOfCondition(c.c1) + TokensOfCondition(c.c2)
    ELSE 1 + TokensOfExpression(c.e1) + TokensOfExpression(c.e2)

TokensOf(nodes) ==
    IF nodes = <<>> THEN 0
    ELSE TokensOf(Tail(nodes)) +
         ( CASE Head(nodes).node = "ControlFlow" ->
                  1 + TokensOfExpression(Head(nodes).condition)
                    + 2 + TokensOf(Head(nodes).block)
             [] "s2" \in DOMAIN Head(nodes) ->
                  2 + TokensOfExpression(Head(nodes).s2)
             [] "s" \in DOMAIN Head(nodes) ->
                  1 + TokensOfExpression(Head(nodes).s)
             [] OTHER -> 1 )

\* C5: parse_content returns Ok only with an AST that accounts for the whole
\* token sequence, and never for a sequence that holds a lexer Error token.
C5_WholeOrError ==
    parsed.res = "Ok" =>
        /\ TokensOf(parsed.asts) = Len(tokens)
        /\ \A k \in 1..Len(tokens) : tokens[k].type # "Error"

\* PENDOWN and a lexer Error token: parse_content returns Ok with the one
\* node PenDown
C5_Partial ==
    /\ tokens = <<K_PENDOWN, K_ERROR>>
    /\ parsed = [res |-> "Ok", asts |-> <<Procedure0("PenDown")>>]

StatementKeywords ==
    {"PenUp", "PenDown", "Forward", "Back", "Left", "Right", "Turn", "SetHeading",
     "SetPenColor", "SetX", "SetY", "Make", "AddAssign", "If", "While"}

RECURSIVE TopLevel(_, _)
\* the statement keywords of a token sequence that are in no block, in order
TopLevel(toks, depth) ==
    IF toks = <<>> THEN <<>>
    ELSE CASE Head(toks).type = "LParen" -> TopLevel(Tail(toks), depth + 1)
           [] Head(toks).type = "RParen" ->
                 TopLevel(Tail(toks), IF depth > 0 THEN depth - 1 ELSE 0)
           [] Head(toks).type \in StatementKeywords /\ depth = 0 ->
                 <<Head(toks).type>> \o TopLevel(Tail(toks), depth)
           [] OTHER -> TopLevel(Tail(toks), depth)

\* the keyword a node was written with
KeywordOf(node) == IF node.node = "Procedure" THEN node.p ELSE node.flow

\* C6: when parse_content returns Ok, the nodes it returns are the top-level
\* statements of the script, one node per statement, in source order.
C6_OneNodePerStatement ==
    parsed.res = "Ok" =>
        [k \in 1..Len(parsed.asts) |-> KeywordOf(parsed.asts[k])]
            = TopLevel(tokens, 0)

\* PENDOWN, a closing bracket, FORWARD "10: the statement FORWARD "10 has no
\* node
C6_Dropped ==
    /\ tokens = <<K_PENDOWN, K_RBRACKET, K_FORWARD, Value(<<"1", "0">>)>>
    /\ parsed = [res |-> "Ok", asts |-> <<Procedure0("PenDown")>>]

\* the messages of the evaluation failures of a statement
RuntimeErrors ==
    {"Variable not found", "Invalid value", "Division by zero", "index out of bounds",
     "Variable not a float", "Second argument can't be turned into a float",
     "Cannot perform math on this type", "Can only compare floats",
     "Can only add expressions that are floats",
     "Can only subtract expressions that are floats",
     "Can only multiply expressions that are floats",
     "Can only divide expressions that are floats",
     "Control flow condition must be able to evaluate into a boolean"}

\* the step executes a Procedure child of the block of an If node
ExecutingInIf ==
    /\ Running
    /\ Len(path) > 1
    /\ NodeAt(program, Front(path)).flow = "If"
    /\ Current.node = "Procedure"
    /\ trace' # trace

\* the result of the statement or guard of the step
Result == trace'[Len(trace')].res

\* C11 as stated: a RuntimeError of a child of an If block is swallowed and
\* the run goes on with the next child.
C11_Swallowed ==
    [][ (ExecutingInIf /\ Result = "Panic")
        => status' = "running" /\ path' = Advance(path) ]_vars

\* C11: a RuntimeError of a child of an If block halts the run like anywhere
\* else: no later child is executed and the If node does not complete.  What
\* the block drops is the failure of the drawing primitive: the next child
\* is executed and the node completes.
C11_OnlyDrawFailuresDropped ==
    [][ /\ ExecutingInIf
           => IF Result = "Panic"
              THEN /\ status' = "panicked"
                   /\ msg' \in RuntimeErrors
                   /\ path' = path
                   /\ turtle' = turtle
              ELSE /\ Result \in {"Ok", "Err"}
                   /\ status' = "running"
                   /\ path' = Advance(path)
        /\ status = "panicked" => vars' = vars ]_vars

\* IF EQ "1 "1 [ FORWARD :u PENDOWN ]: the run halts at FORWARD :u and the pen
\* is never put down
C11_Witness ==
    /\ tokens = UndefinedInIf
    /\ status = "panicked"
    /\ msg = "Variable not found"
    /\ trace = <<Event("guard", <<1>>, "true"), Event("exec", <<1, 1>>, "Panic")>>
    /\ ~turtle.pen_down

\* the step executes a top-level Procedure node
ExecutingTopLevel ==
    /\ Running
    /\ Len(path) = 1
    /\ Current.node = "Procedure"
    /\ trace' # trace

\* the step evaluates the guard of a While node again, after a pass
Repeating ==
    /\ status = "running"
    /\ AtBlockEnd
    /\ Len(path) > 1
    /\ NodeAt(program, Front(path)).flow = "While"
    /\ trace' # trace

\* C12: when a top-level statement or the guard of a WHILE, on its first or
\* on a later evaluation, raises a RuntimeError, the run halts: the failing
\* step changes nothing in the turtle or the environment, and nothing is
\* executed after it.
C12_Halts ==
    [][ /\ ( /\ ExecutingTopLevel \/ Entering("While") \/ Repeating
             /\ Result = "Panic" )
           => /\ status' = "panicked"
              /\ turtle' = turtle
              /\ path' = path
        /\ status = "panicked" => vars' = vars ]_vars

\* MAKE "x "10  WHILE LT :x "12 [ MAKE "x "a ]: the second evaluation of the
\* guard halts the run
C12_Witness ==
    /\ tokens = GuardFailsLater
    /\ status = "panicked"
    /\ msg = "Can only compare floats"
    /\ trace = <<Event("exec", <<1>>, "Ok"), Event("guard", <<2>>, "true"),
                 Event("exec", <<2, 1>>, "Ok"), Event("guard", <<2>>, "Panic")>>
    /\ Binding(<<"x">>) = String(<<"a">>)

----------------------------------------------------------------------------
(* C13: And and Or evaluate both sub-conditions *)

\* the values of the two sub-conditions of the combined condition
Val1 == eval(cmp.cond1, turtle, {})
Val2 == eval(cmp.cond2, turtle, {})

\* C13: And and Or evaluate both sub-conditions, whatever the first one
\* yields: when the second raises an error the whole condition fails with
\* that error, also where the first alone would settle the result (And
\* after false, Or after true); when neither raises, the results are the
\* conjunction and the disjunction of the two values
C13_BothEvaluated ==
    (status = "bool" /\ cmp.done) =>
        /\ (~IsAbort(Val1) /\ IsAbort(Val2)) =>
                /\ cmp.conj = Val2
                /\ cmp.disj = Val2
        /\ (~IsAbort(Val1) /\ ~IsAbort(Val2)) =>
                /\ cmp.conj = SomeB(Val1.b /\ Val2.b)
                /\ cmp.disj = SomeB(Val1.b \/ Val2.b)

\* Or of a true sub-condition and one that raises has failed
C13_Witness ==
    /\ status = "bool"
    /\ cmp.done
    /\ Val1 = SomeB(TRUE)
    /\ IsAbort(Val2)
    /\ IsAbort(cmp.disj)
    /\ IsAbort(cmp.conj)

----------------------------------------------------------------------------
(* C14: the turtle after construction *)

\* nothing has been executed yet
Fresh == status \in {"unparsed", "running"} /\ trace = <<>>

\* C14: a new turtle on a canvas of W by H is at (W/2, H/2) with heading 0,
\* the pen up, pen color index 7 (the COLOR query yields 7) and no variable
\* bound, and stays so until the first statement executes
C14_NewTurtle ==
    Fresh =>
        /\ \E d \in Canvases :
                /\ get_x(turtle) = Rat(d[1], 2)
                /\ get_y(turtle) = Rat(d[2], 2)
        /\ get_heading(turtle) = R(0)
        /\ ~turtle.pen_down
        /\ turtle.pen_color = COLORS[7 + 1]
        /\ to_float(Query("COLOR"), turtle, {}) = SomeF(R(7))
        /\ DOMAIN turtle.variables = {}
        /\ turtle.image = <<>>

\* the new turtle of a 100 by 100 canvas, about to execute its program
C14_Witness ==
    /\ Fresh
    /\ status = "running"
    /\ get_x(turtle) = R(50)
    /\ get_y(turtle) = R(50)
    /\ to_float(Query("COLOR"), turtle, {}) = SomeF(R(7))

----------------------------------------------------------------------------
(* C15: moves accumulate, with the pen up as with the pen down *)

\* FORWARD "10 FORWARD "10
ForwardTwice == <<K_FORWARD, Value(<<"1", "0">>), K_FORWARD, Value(<<"1", "0">>)>>

\* the step executes FORWARD d at heading 0 and the statement succeeds
ForwardAtZero ==
    /\ Executing("Forward")
    /\ NumberOf(Current.s).t = "Some"
    /\ get_heading(turtle) = R(0)
    /\ Result = "Ok"

\* C15: a FORWARD d at heading 0 decreases y by d and leaves x and the
\* heading unchanged, from wherever the turtle stands; with the pen up it
\* always succeeds and draws nothing
C15_Accumulates ==
    [][ /\ ForwardAtZero =>
              /\ get_y(turtle') = RSub(get_y(turtle), NumberOf(Current.s).f)
              /\ get_x(turtle') = get_x(turtle)
              /\ get_heading(turtle') = get_heading(turtle)
        /\ ( /\ Executing("Forward")
             /\ NumberOf(Current.s).t = "Some"
             /\ ~turtle.pen_down )
              => /\ Result = "Ok"
                 /\ turtle'.image = turtle.image
        /\ (tokens' = ForwardTwice /\ status' = "done" /\ turtle'.image = <<>>)
              => \E d \in Canvases :
                    /\ get_x(turtle') = Rat(d[1], 2)
                    /\ get_y(turtle') = RSub(Rat(d[2], 2), R(20)) ]_vars

\* FORWARD "10 twice on the 100 x 100 canvas, pen up: the turtle ends at
\* (50, 30) and nothing was drawn
C15_Witness ==
    /\ tokens = ForwardTwice
    /\ status = "done"
    /\ ~turtle.pen_down
    /\ turtle.image = <<>>
    /\ get_x(turtle) = R(50)
    /\ get_y(turtle) = R(30)

----------------------------------------------------------------------------
(* C16: PENUP and PENDOWN take no operand *)

\* the tokens an arg can begin with: a quoted literal, a variable reference,
\* a query keyword, an arithmetic operator
BeginsArg(tok) ==
    tok.type \in {"Value", "Variable", "XCOR", "YCOR", "HEADING", "COLOR",
                  "Add", "Sub", "Mul", "Div"}

\* C16: a script in which a PENUP or PENDOWN is immediately followed by a
\* token that can begin an arg is rejected: parse_content returns Ok only
\* when every PENUP and PENDOWN is followed by a token that cannot begin an
\* arg, or by the end of the input or of the block.
C16_NoOperand ==
    parsed.res = "Ok" =>
        \A k \in 1..Len(tokens) :
            (tokens[k].type \in {"PenUp", "PenDown"} /\ k < Len(tokens))
                => ~BeginsArg(tokens[k + 1])

\* PENDOWN PENUP "1: parse_content returns Ok with the one node PenDown
C16_Phantom ==
    /\ tokens = <<K_PENDOWN, K_PENUP, Value(<<"1">>)>>
    /\ parsed = [res |-> "Ok", asts |-> <<Procedure0("PenDown")>>]

----------------------------------------------------------------------------
(* C17: the name of a Make or AddAssign node *)

\* the failures of the evaluator on a first operand that is no Variable
NoVariable ==
    {"First argument of MAKE should be a variable",
     "First argument of ADDASSIGN should be a variable"}

\* the node is a Make or an AddAssign
Assigns(node) == node.node = "Procedure" /\ node.p \in {"Make", "AddAssign"}

\* the first expression of the node is a Variable whose name is the text of
\* a quoted non-numeric literal that follows the keyword in the script
NamedByLiteral(node) ==
    /\ node.s.k = "Variable"
    /\ has_letter(node.s.name)
    /\ ~is_numeric(node.s.name)
    /\ \E k \in 1..(Len(tokens) - 1) :
          /\ tokens[k].type = node.p
          /\ tokens[k + 1] = Value(node.s.name)

\* executing the node on any turtle does not fail on its first operand
ExecutesByName(node) ==
    \A t \in Environments :
        execute_Procedure(node, t, TRUE).res = "Panic"
            => execute_Procedure(node, t, TRUE).msg \notin NoVariable

RECURSIVE WellNamed(_)
\* every Make and AddAssign of the nodes, blocks included, is named by a
\* literal and executes by that name
WellNamed(nodes) ==
    \A k \in 1..Len(nodes) :
        /\ Assigns(nodes[k]) => NamedByLiteral(nodes[k]) /\ ExecutesByName(nodes[k])
        /\ nodes[k].node = "ControlFlow" => WellNamed(nodes[k].block)

RECURSIVE HasAssign(_)
\* the nodes hold a Make or an AddAssign
HasAssign(nodes) ==
    \E k \in 1..Len(nodes) :
        \/ Assigns(nodes[k])
        \/ nodes[k].node = "ControlFlow" /\ HasAssign(nodes[k].block)

----------------------------------------------------------------------------
(* C18: lexer idempotence *)

\* the tokens of the text of the k-th span, tokenized on its own
Relexed(k) == tokenize(slice(cmp.content, cmp.spans[k]), cmp.error)

\* C18: for every token the lexer emits, Error included, tokenizing the
\* text of its span on its own yields exactly one token, which is equal to
\* it (same variant, same carried string).
C18_Idempotent ==
    (status = "lex" /\ cmp.done) =>
        \A k \in 1..Len(tokens) :
            /\ Len(Relexed(k)) = 1
            /\ Relexed(k)[1].tok = tokens[k]

\* PENUP@: the keyword and an Error token, each found again in its span
C18_Witness ==
    /\ status = "lex"
    /\ cmp.done
    /\ tokens = <<K_PENUP, K_ERROR>>
    /\ cmp.spans = <<<<0, 5>>, <<5, 6>>>>
    /\ \A k \in 1..Len(tokens) : Relexed(k) = <<Spanned(tokens[k], <<0, cmp.spans[k][2] - cmp.spans[k][1]>>)>>

----------------------------------------------------------------------------
(* C19: SETPENCOLOR and the palette range *)

\* the step executes SETPENCOLOR on an operand that coerces to a number
SettingPenColor ==
    /\ Executing("SetPenColor")
    /\ NumberOf(Current.s).t = "Some"

\* the palette index of the operand: its truncation
Index == Trunc(NumberOf(Current.s).f)

\* C19: SETPENCOLOR v sets the pen color to palette index trunc(v) when
\* 0 <= trunc(v) < palette size, so that a COLOR query then yields trunc(v);
\* for every operand whose truncated index is outside the palette, negative
\* values included, it is a fatal error and the pen color is unchanged.
C19_RangeChecked ==
    [][ SettingPenColor =>
          IF 0 <= Index /\ Index < Len(COLORS)
          THEN /\ Result = "Ok"
               /\ turtle'.pen_color = COLORS[Index + 1]
               /\ to_float(Query("COLOR"), turtle', {}) = SomeF(R(Index))
          ELSE /\ Result = "Panic"
               /\ status' = "panicked"
               /\ turtle'.pen_color = turtle.pen_color ]_vars

\* SETPENCOLOR "-1 has run to its end and the pen color is palette index 0
C19_Saturated ==
    /\ tokens = NegativeColor
    /\ status = "done"
    /\ trace[1].res = "Ok"
    /\ to_float(Query("COLOR"), turtle, {}) = SomeF(R(0))

----------------------------------------------------------------------------
(* C20: what MAKE stores *)

\* the step executes a MAKE that succeeds
Making ==
    /\ Executing("Make")
    /\ Result = "Ok"

\* a read of :a in the state after the step, as a number and as a boolean
ReadNumber == to_float(Variable(<<"a">>), turtle', {})
ReadBool == to_bool(Variable(<<"a">>), turtle', {})

\* the run of the script ends with this step, on the 100 x 100 canvas
Ends(script) ==
    /\ tokens = script
    /\ status' = "done"
    /\ parsed'.res = "Ok"
    /\ get_y(turtle') = R(50)

\* C20: MAKE binds a math value reduced to a numeric literal and every other
\* value as it is written, unevaluated, in place of any previous binding of
\* the name, and leaves the other bindings alone.  So a read of :a after
\* MAKE "a + XCOR "0 yields the x position at binding time even after the
\* turtle has moved, whereas after MAKE "a XCOR, MAKE "a :b or MAKE "a
\* <condition> every read of :a is evaluated in the state of the read.
C20_BindingTime ==
    [][ /\ Making =>
              /\ IF Current.s2.k = "Math"
                 THEN /\ turtle'.variables[Current.s.name].k = "Float"
                      /\ SomeE(turtle'.variables[Current.s.name]) =
                            eval_math(Current.s2, turtle, {})
                 ELSE turtle'.variables[Current.s.name] = Current.s2
              /\ DOMAIN turtle'.variables =
                    DOMAIN turtle.variables \cup {Current.s.name}
              /\ \A n \in DOMAIN turtle.variables \ {Current.s.name} :
                    turtle'.variables[n] = turtle.variables[n]
        /\ Ends(MakeMath) =>
              /\ get_x(turtle') = R(60)
              /\ ReadNumber = SomeF(R(50))
        /\ Ends(MakeQuery) =>
              /\ get_x(turtle') = R(60)
              /\ ReadNumber = SomeF(R(60))
        /\ Ends(MakeVariable) => ReadNumber = SomeF(R(2))
        /\ Ends(MakeCondition) =>
              /\ get_x(turtle') = R(60)
              /\ ReadBool = SomeB(FALSE) ]_vars

\* MAKE "a + XCOR "0 then RIGHT "10 on the 100 x 100 canvas: the turtle is
\* at x = 60 and a is bound to the literal 50
C20_Witness ==
    /\ tokens = MakeMath
    /\ status = "done"
    /\ get_x(turtle) = R(60)
    /\ Binding(<<"a">>) = Float(R(50))

----------------------------------------------------------------------------
(* C21: program order and the evaluations of a WHILE guard *)

RECURSIVE After(_)
\* where the run goes when the node at q has returned: its next sibling,
\* the guard of the While that holds it, or what follows the If that holds it
After(q) ==
    IF Len(q) = 1 \/ Last(q) < Len(BlockOf(q)) THEN Advance(q)
    ELSE IF NodeAt(program, Front(q)).flow = "While" THEN Front(q)
    ELSE After(Front(q))

\* the position of the event that follows event e in program order
Following(e) ==
    IF e.ev = "guard" /\ e.res = "true" THEN Append(e.at, 1) ELSE After(e.at)

\* the step evaluates a guard or executes a statement
Stepping == status = "running" /\ trace' # trace

\* the event of the step
Stepped == trace'[Len(trace')]

\* the events of trace' at position q
EventsAt(q) == {k \in 1..Len(trace') : trace'[k].at = q}
TrueAt(q) == {k \in EventsAt(q) : trace'[k].res = "true"}

\* the step evaluates the guard of a top-level While to false
Leaving ==
    /\ Stepping
    /\ Stepped.ev = "guard"
    /\ Stepped.res = "false"
    /\ Len(Stepped.at) = 1
    /\ NodeAt(program, Stepped.at).flow = "While"

\* MAKE "x "10  WHILE LT :x "12 [ ADDASSIGN "x "1  FORWARD "10 ]
CountAndMove ==
    <<K_MAKE, Value(<<"x">>), Value(<<"1", "0">>),
      K_WHILE, K_LT, VariableTok(<<"x">>), Value(<<"1", "2">>), K_LBRACKET,
      K_ADDASSIGN, Value(<<"x">>), Value(<<"1">>),
      K_FORWARD, Value(<<"1", "0">>), K_RBRACKET>>

\* C21: statements execute in program order, depth first and left to right.
\* The guard of a WHILE is evaluated before the first iteration and after
\* each complete pass over the block and at no other point: a pass executes
\* every child once, in order, whatever the guard has become meanwhile.  A
\* loop that runs k iterations has evaluated its guard k + 1 times.
C21_ProgramOrder ==
    [][ /\ Stepping =>
              /\ Len(trace') = Len(trace) + 1
              /\ Stepped.at = IF trace = <<>> THEN <<1>>
                              ELSE Following(trace[Len(trace)])
        /\ ( /\ Stepping
             /\ Stepped.ev = "guard"
             /\ NodeAt(program, Stepped.at).flow = "While" )
              => \/ Entering("While") /\ Stepped.at = path
                 \/ Repeating /\ Stepped.at = Front(path)
        /\ Repeating => RanBlockOnce(Front(path))
        /\ Leaving =>
              /\ Cardinality(EventsAt(Stepped.at)) =
                    Cardinality(TrueAt(Stepped.at)) + 1
              /\ \A c \in 1..Len(NodeAt(program, Stepped.at).block) :
                    NodeAt(program, Stepped.at).block[c].node = "Procedure"
                        => Cardinality(EventsAt(Append(Stepped.at, c))) =
                              Cardinality(TrueAt(Stepped.at)) ]_vars

\* the loop of CountAndMove has run two iterations on three evaluations of
\* its guard: the second FORWARD ran although x was 12 already
C21_Witness ==
    /\ tokens = CountAndMove
    /\ status = "done"
    /\ Len(trace) = 8
    /\ trace[6] = Event("exec", <<2, 1>>, "Ok")
    /\ trace[7] = Event("exec", <<2, 2>>, "Ok")
    /\ trace[8] = Event("guard", <<2>>, "false")
    /\ Count("guard", <<2>>, "true") = 2
    /\ Binding(<<"x">>) = Float(R(12))

----------------------------------------------------------------------------
(* C22: BACK and RIGHT as FORWARD and LEFT of the negated distance *)

MovingPair == status = "move" /\ cmp'.stage = cmp.stage + 1

\* the draw call of the step, if the pen is down
Call == turtle'.image[Len(turtle'.image)]

----------------------------------------------------------------------------
(* C23: what each kind of step may change *)

\* the step executes a Procedure node
ExecutingProcedure ==
    /\ Running
    /\ Current.node = "Procedure"
    /\ trace' # trace

\* the fields of the turtle but the environment, and but the pen flag
Motion(t) == <<t.x, t.y, t.heading, t.pen_color, t.image>>

\* C23: the environment is changed by MAKE and ADDASSIGN only: every other
\* procedure and every guard evaluation leaves all bindings as they are.
\* MAKE and ADDASSIGN leave position, heading, pen flag and pen color
\* unchanged and issue no draw call; PENUP and PENDOWN change nothing but
\* the pen flag.
C23_Frame ==
    [][ /\ ~(ExecutingProcedure /\ Current.p \in {"Make", "AddAssign"})
              => turtle'.variables = turtle.variables
        /\ (Entering("If") \/ Entering("While") \/ Repeating) => turtle' = turtle
        /\ (ExecutingProcedure /\ Current.p \in {"Make", "AddAssign"})
              => /\ Motion(turtle') = Motion(turtle)
                 /\ turtle'.pen_down = turtle.pen_down
        /\ (ExecutingProcedure /\ Current.p \in {"PenUp", "PenDown"})
              => /\ Motion(turtle') = Motion(turtle)
                 /\ turtle'.variables = turtle.variables
                 /\ turtle'.pen_down = (Current.p = "PenDown") ]_vars

\* after MAKE "x "10 SETPENCOLOR "2 PENUP the pen is up, the pen color is
\* still 2 and x is still bound to 10
C23_Witness ==
    /\ tokens = MakeColorPenUp
    /\ status = "done"
    /\ Len(trace) = 3
    /\ ~turtle.pen_down
    /\ turtle.pen_color = COLORS[2 + 1]
    /\ Binding(<<"x">>) = Float(R(10))

----------------------------------------------------------------------------
(* C24: the heading is not normalized *)

\* the HEADING query in the state after the step
HeadingRead == to_float(Query("HEADING"), turtle', {})

\* the step executes procedure p on an operand that coerces to a number
ExecutingOn(p) ==
    /\ Executing(p)
    /\ NumberOf(Current.s).t = "Some"

----------------------------------------------------------------------------
(* C25: comments *)

\* the positions of the content where a comment starts: a // at the start
\* of the content or after whitespace
CommentStarts(src) ==
    {k \in 1..(Len(src) - 1) :
        /\ src[k] = "/" /\ src[k + 1] = "/"
        /\ k = 1 \/ src[k - 1] \in {" ", "\t", "\n", "\f"}}

\* the end of the line of the comment at k: its newline, or one past the
\* end of the content
LineEnd(src, k) == k + 2 + RunNot(src, k + 2, {"\n"})

\* the content with the comment at k left out, from // to the end of its line
Without(src, k) == SubSeq(src, 1, k - 1) \o SubSeq(src, LineEnd(src, k), Len(src))

\* the tokens of a content
TokensIn(src, error) ==
    [k \in 1..Len(tokenize(src, error)) |-> tokenize(src, error)[k].tok]

\* C25: the tokens of a content are those of the content with a comment
\* left out, from its // to the end of its line, whether the line ends with
\* a newline or with the content.
C25_Elided ==
    (status = "lex" /\ cmp.done) =>
        \A k \in CommentStarts(cmp.content) :
            tokens = TokensIn(Without(cmp.content, k), cmp.error)

\* PENUP and a comment that ends with the content: the comment is tokenized
C25_LastLine ==
    /\ status = "lex"
    /\ cmp.done
    /\ cmp.content = <<"P", "E", "N", "U", "P", " ", "/", "/", "c">>
    /\ Len(tokens) > 1
    /\ tokens[1] = K_PENUP
    /\ tokens[2] = K_DIV

----------------------------------------------------------------------------
(* C26: coercion of a variable reference *)

\* the names a script of the model may read
Names == DOMAIN turtle.variables \cup {<<"u">>}

\* the coercion ends: with a value, with None, or with the panic of an
\* undefined variable or of a failed sub-expression; not with a recursion
\* that never returns
Ends26(r) == r # Overflow

\* C26: in every environment that MAKE and ADDASSIGN statements lead to,
\* the numeric, string and boolean coercions of a variable reference end.
C26_Terminates ==
    \A n \in Names :
        /\ Ends26(to_float(Variable(n), turtle, {}))
        /\ Ends26(to_string(Variable(n), turtle, {}))
        /\ Ends26(to_bool(Variable(n), turtle, {}))

\* MAKE "x :x  FORWARD :x: the coercion of :x by FORWARD never returns
C26_Unbounded ==
    /\ tokens = SelfReference
    /\ status = "panicked"
    /\ msg = Overflow.msg
    /\ Binding(<<"x">>) = Variable(<<"x">>)
    /\ trace = <<Event("exec", <<1>>, "Ok"), Event("exec", <<2>>, "Panic")>>

----------------------------------------------------------------------------
(* C27: a move whose draw call fails *)

\* the step is a move with the pen down whose draw call fails
DrawFails ==
    /\ Moving
    /\ turtle.pen_down
    /\ Result = "Err"

\* C27: when the drawing primitive reports a failure during FORWARD, BACK,
\* LEFT or RIGHT with the pen down, position, heading, pen flag, pen color
\* and environment are as before the statement: the turtle is not moved to
\* the end of the segment.
C27_FailureLeavesTurtle ==
    [][ DrawFails =>
          /\ ~Call.ok
          /\ <<turtle'.x, turtle'.y>> = <<turtle.x, turtle.y>>
          /\ turtle'.heading = turtle.heading
          /\ turtle'.pen_down = turtle.pen_down
          /\ turtle'.pen_color = turtle.pen_color
          /\ turtle'.variables = turtle.variables ]_vars

\* PENDOWN FORWARD "100 with a failing draw call: the run ends with the
\* failure and the turtle at the centre of the canvas
C27_Witness ==
    /\ tokens = PenDownForward
    /\ status = "error"
    /\ trace[2] = Event("exec", <<2>>, "Err")
    /\ turtle.x = R(50) /\ turtle.y = R(50)
    /\ turtle.pen_down
    /\ Len(turtle.image) = 1

----------------------------------------------------------------------------
(* C28: a draw failure inside a block and at the top level *)

\* C28: the failure of the drawing primitive in a child of a WHILE or IF
\* block is discarded: the run goes on with the next child, the guard of a
\* WHILE is evaluated again after the pass and the node returns success.
\* The same failure of a top-level statement is returned to the caller: the
\* run ends with the error and nothing more is executed.
C28_DiscardedInBlocks ==
    [][ /\ (DrawFails /\ Len(path) > 1)
           => /\ status' = "running"
              /\ path' = Advance(path)
        /\ (DrawFails /\ Len(path) = 1)
           => /\ status' = "error"
              /\ path' = path
        /\ status = "error" => vars' = vars
        /\ (tokens = DrawInWhile /\ status' \in {"done", "error"}) =>
              /\ status' = "done"
              /\ Cardinality({k \in 1..Len(trace') : trace'[k].ev = "guard"}) = 3
              /\ turtle'.variables[<<"x">>] = Float(R(12)) ]_vars

\* DrawInWhile with both draw calls failing: the loop has run its two
\* passes to the end and the turtle has not moved
C28_Witness ==
    /\ tokens = DrawInWhile
    /\ status = "done"
    /\ Count("exec", <<2, 2>>, "Err") = 2
    /\ Count("exec", <<2, 3>>, "Ok") = 2
    /\ Count("guard", <<2>>, "true") = 2
    /\ trace[Len(trace)] = Event("guard", <<2>>, "false")
    /\ turtle.x = R(50) /\ turtle.y = R(50)

====
